---- MODULE Spec2Model ----
(***************************************************************************)
(* Model of the student-record pipeline of dashboard_school:               *)
(*   processing.py  (text normaliser, CSV decoder, column resolver,        *)
(*                   categorical mappers, schema normaliser, risk scorer)  *)
(*   main.py        (save_data_to_database, handle_upload)                 *)
(*   dashboard.py   (calculate_student_churn_risk)                         *)
(*   models.py / connection.py (entities, the scoped session)              *)
(*                                                                         *)
(* Conventions.                                                            *)
(*  - A Python float is an exact rational [nan, n, d] (d > 0); NaN is the  *)
(*    value with nan = TRUE, and infinity the one with d = 0.              *)
(*  - A free-form Python string is a sequence of one-character strings;    *)
(*    a string the code writes as a literal enumeration value ("atrasado") *)
(*    is a TLA+ string.                                                    *)
(***************************************************************************)
EXTENDS Integers, Sequences, FiniteSets, TLC

VARIABLES
    pc,                 \* position of the run under the current specification
    student_data,       \* risk scorer: the records of one student (a DataFrame)
    churn_probability,  \* risk scorer: result of calculate_churn_probability
    risk_level,         \* risk scorer: result of get_churn_risk_level
    decoded,            \* pipeline: the bytes of the CSV file
    df_raw,             \* pipeline: the table try_read_csv_bytes returned
    df_processed,       \* pipeline: the table process_university_data returned
    attempt,            \* pipeline: the pass of the decoder's loops that returned
    churn_data,         \* pipeline: the result of calculate_student_churn_risk
    contents,           \* upload: the file handed to handle_upload
    upload_status,      \* upload: the message handle_upload returned
    store_data,         \* upload: the store data handle_upload returned
    db,                 \* upload: the committed rows of the database
    session_active,     \* upload: the scoped session accepts statements
    session_view,       \* upload: the rows the session's transaction sees
    save_raised,        \* upload: what save_data_to_database raised, as logged
    n_uploads,          \* upload: number of calls of handle_upload
    workers,            \* race: the two concurrent calls of save_data_to_database
    input_value,        \* text: the scalar handed to normalize_str and the mappers
    normalized_once,    \* text: normalize_str(value)
    normalized_twice,   \* text: normalize_str(normalize_str(value))
    mapped              \* text: the results of the four categorical mappers

churnVars == <<student_data, churn_probability, risk_level>>
pipeVars == <<decoded, df_raw, df_processed, attempt, churn_data>>
uploadVars == <<contents, upload_status, store_data, db, session_active, session_view,
                save_raised, n_uploads, workers>>
textVars == <<input_value, normalized_once, normalized_twice, mapped>>
vars == <<pc, churnVars, pipeVars, uploadVars, textVars>>

(***************************************************************************)
(* Floats as exact rationals                                               *)
(***************************************************************************)
R(n, d) == [nan |-> FALSE, n |-> n, d |-> d]
NaN == [nan |-> TRUE, n |-> 0, d |-> 1]
notna(x) == ~x.nan
RLt(a, b) == a.n * b.d < b.n * a.d
RLe(a, b) == a.n * b.d <= b.n * a.d
REq(a, b) == a.n * b.d = b.n * a.d
RECURSIVE GCD(_, _)
GCD(a, b) == IF b = 0 THEN a ELSE GCD(b, a % b)
\* The same rational in lowest terms (keeps the integers of the model small).
RNorm(x) ==
    LET g == GCD(IF x.n < 0 THEN -x.n ELSE x.n, x.d)
    IN  R(x.n \div g, x.d \div g)
RAdd(a, b) == RNorm(R(a.n * b.d + b.n * a.d, a.d * b.d))
RMul(a, b) == RNorm(R(a.n * b.n, a.d * b.d))
RDivInt(a, k) == RNorm(R(a.n, a.d * k))
RMin(a, b) == IF RLe(a, b) THEN a ELSE b

\* Python/NumPy comparison of floats: every comparison with NaN is False.
FLt(a, b) == notna(a) /\ notna(b) /\ RLt(a, b)
FGe(a, b) == notna(a) /\ notna(b) /\ RLe(b, a)

(***************************************************************************)
(* Python strings as sequences of characters                               *)
(*                                                                         *)
(* A character is a one-character TLA+ string; the characters outside      *)
(* ASCII that the model uses have names: "a_acute", "c_cedil", "a_tilde",  *)
(* "A_tilde", "C_cedil", "i_diaer", "inv_excl" (U+00A1), "raquo" (U+00BB), *)
(* "inv_quest" (U+00BF), "BOM" (U+FEFF), "TAB", "NL", and the combining    *)
(* marks "comb_acute", "comb_cedil", "comb_tilde", "comb_diaer".           *)
(***************************************************************************)
\* The string literals of processing.py and main.py, by their text.
Lit ==
    "avaliacao" :> <<"a", "v", "a", "l", "i", "a", "c", "a", "o">> @@
    "curso" :> <<"c", "u", "r", "s", "o">> @@
    "nota_avaliacao_curso" :> <<"n", "o", "t", "a", "_", "a", "v", "a", "l", "i", "a", "c", "a", "o", "_", "c", "u", "r", "s", "o">> @@
    "nota" :> <<"n", "o", "t", "a">> @@
    "final" :> <<"f", "i", "n", "a", "l">> @@
    "nota_final" :> <<"n", "o", "t", "a", "_", "f", "i", "n", "a", "l">> @@
    "id" :> <<"i", "d">> @@
    "aluno" :> <<"a", "l", "u", "n", "o">> @@
    "periodo" :> <<"p", "e", "r", "i", "o", "d", "o">> @@
    "semestre" :> <<"s", "e", "m", "e", "s", "t", "r", "e">> @@
    "letivo" :> <<"l", "e", "t", "i", "v", "o">> @@
    "disciplina" :> <<"d", "i", "s", "c", "i", "p", "l", "i", "n", "a">> @@
    "status" :> <<"s", "t", "a", "t", "u", "s">> @@
    "frequencia" :> <<"f", "r", "e", "q", "u", "e", "n", "c", "i", "a">> @@
    "attendance" :> <<"a", "t", "t", "e", "n", "d", "a", "n", "c", "e">> @@
    "pagamento" :> <<"p", "a", "g", "a", "m", "e", "n", "t", "o">> @@
    "matricula" :> <<"m", "a", "t", "r", "i", "c", "u", "l", "a">> @@
    "forma" :> <<"f", "o", "r", "m", "a">> @@
    "ingresso" :> <<"i", "n", "g", "r", "e", "s", "s", "o">> @@
    "admission" :> <<"a", "d", "m", "i", "s", "s", "i", "o", "n">> @@
    "course_evaluation" :> <<"c", "o", "u", "r", "s", "e", "_", "e", "v", "a", "l", "u", "a", "t", "i", "o", "n">> @@
    "final_grade" :> <<"f", "i", "n", "a", "l", "_", "g", "r", "a", "d", "e">> @@
    "student_id" :> <<"s", "t", "u", "d", "e", "n", "t", "_", "i", "d">> @@
    "course" :> <<"c", "o", "u", "r", "s", "e">> @@
    "semester" :> <<"s", "e", "m", "e", "s", "t", "e", "r">> @@
    "discipline" :> <<"d", "i", "s", "c", "i", "p", "l", "i", "n", "e">> @@
    "attendance_pct" :> <<"a", "t", "t", "e", "n", "d", "a", "n", "c", "e", "_", "p", "c", "t">> @@
    "payment_status" :> <<"p", "a", "y", "m", "e", "n", "t", "_", "s", "t", "a", "t", "u", "s">> @@
    "discipline_status" :> <<"d", "i", "s", "c", "i", "p", "l", "i", "n", "e", "_", "s", "t", "a", "t", "u", "s">> @@
    "enrollment_status" :> <<"e", "n", "r", "o", "l", "l", "m", "e", "n", "t", "_", "s", "t", "a", "t", "u", "s">> @@
    "admission_type" :> <<"a", "d", "m", "i", "s", "s", "i", "o", "n", "_", "t", "y", "p", "e">> @@
    "is_passing" :> <<"i", "s", "_", "p", "a", "s", "s", "i", "n", "g">> @@
    "at_risk" :> <<"a", "t", "_", "r", "i", "s", "k">> @@
    "externa" :> <<"e", "x", "t", "e", "r", "n", "a">> @@
    "external" :> <<"e", "x", "t", "e", "r", "n", "a", "l">> @@
    "interna" :> <<"i", "n", "t", "e", "r", "n", "a">> @@
    "internal" :> <<"i", "n", "t", "e", "r", "n", "a", "l">> @@
    "bolsa" :> <<"b", "o", "l", "s", "a">> @@
    "scholarship" :> <<"s", "c", "h", "o", "l", "a", "r", "s", "h", "i", "p">> @@
    "promocao" :> <<"p", "r", "o", "m", "o", "c", "a", "o">> @@
    "vestibular" :> <<"v", "e", "s", "t", "i", "b", "u", "l", "a", "r">> @@
    "entrance" :> <<"e", "n", "t", "r", "a", "n", "c", "e">> @@
    "evadido" :> <<"e", "v", "a", "d", "i", "d", "o">> @@
    "dropped" :> <<"d", "r", "o", "p", "p", "e", "d">> @@
    "desistente" :> <<"d", "e", "s", "i", "s", "t", "e", "n", "t", "e">> @@
    "trancado" :> <<"t", "r", "a", "n", "c", "a", "d", "o">> @@
    "suspended" :> <<"s", "u", "s", "p", "e", "n", "d", "e", "d">> @@
    "trancamento" :> <<"t", "r", "a", "n", "c", "a", "m", "e", "n", "t", "o">> @@
    "ativo" :> <<"a", "t", "i", "v", "o">> @@
    "active" :> <<"a", "c", "t", "i", "v", "e">> @@
    "matriculado" :> <<"m", "a", "t", "r", "i", "c", "u", "l", "a", "d", "o">> @@
    "aprovado" :> <<"a", "p", "r", "o", "v", "a", "d", "o">> @@
    "approved" :> <<"a", "p", "p", "r", "o", "v", "e", "d">> @@
    "passed" :> <<"p", "a", "s", "s", "e", "d">> @@
    "reprovado" :> <<"r", "e", "p", "r", "o", "v", "a", "d", "o">> @@
    "failed" :> <<"f", "a", "i", "l", "e", "d">> @@
    "reprovacao" :> <<"r", "e", "p", "r", "o", "v", "a", "c", "a", "o">> @@
    "andamento" :> <<"a", "n", "d", "a", "m", "e", "n", "t", "o">> @@
    "progress" :> <<"p", "r", "o", "g", "r", "e", "s", "s">> @@
    "cursando" :> <<"c", "u", "r", "s", "a", "n", "d", "o">> @@
    "pago" :> <<"p", "a", "g", "o">> @@
    "paid" :> <<"p", "a", "i", "d">> @@
    "quitado" :> <<"q", "u", "i", "t", "a", "d", "o">> @@
    "atrasado" :> <<"a", "t", "r", "a", "s", "a", "d", "o">> @@
    "overdue" :> <<"o", "v", "e", "r", "d", "u", "e">> @@
    "late" :> <<"l", "a", "t", "e">> @@
    "vencido" :> <<"v", "e", "n", "c", "i", "d", "o">> @@
    "pendente" :> <<"p", "e", "n", "d", "e", "n", "t", "e">> @@
    "pending" :> <<"p", "e", "n", "d", "i", "n", "g">> @@
    "id_aluno" :> <<"i", "d", "_", "a", "l", "u", "n", "o">> @@
    "periodo_letivo" :> <<"p", "e", "r", "i", "o", "d", "o", "_", "l", "e", "t", "i", "v", "o">> @@
    "frequencia_pct" :> <<"f", "r", "e", "q", "u", "e", "n", "c", "i", "a", "_", "p", "c", "t">> @@
    "status_pagamento" :> <<"s", "t", "a", "t", "u", "s", "_", "p", "a", "g", "a", "m", "e", "n", "t", "o">> @@
    "status_disciplina" :> <<"s", "t", "a", "t", "u", "s", "_", "d", "i", "s", "c", "i", "p", "l", "i", "n", "a">> @@
    "status_matricula" :> <<"s", "t", "a", "t", "u", "s", "_", "m", "a", "t", "r", "i", "c", "u", "l", "a">> @@
    "nan" :> <<"n", "a", "n">> @@
    "N/A" :> <<"N", "/", "A">> @@
    "transferencia_externa" :> <<"t", "r", "a", "n", "s", "f", "e", "r", "e", "n", "c", "i", "a", "_", "e", "x", "t", "e", "r", "n", "a">> @@
    "transferencia_interna" :> <<"t", "r", "a", "n", "s", "f", "e", "r", "e", "n", "c", "i", "a", "_", "i", "n", "t", "e", "r", "n", "a">> @@
    "bolsista" :> <<"b", "o", "l", "s", "i", "s", "t", "a">> @@
    "em_andamento" :> <<"e", "m", "_", "a", "n", "d", "a", "m", "e", "n", "t", "o">>

\* str.isspace() for the characters of the model.
IsSpace(c) == c \in {" ", "TAB", "NL"}

\* sub in s
Contains(s, sub) ==
    \E i \in 0..(Len(s) - Len(sub)) : SubSeq(s, i + 1, i + Len(sub)) = sub

\* "".join(ss), by halves.
RECURSIVE Flatten(_)
Flatten(ss) ==
    IF ss = <<>> THEN <<>>
    ELSE IF Len(ss) = 1 THEN ss[1]
    ELSE LET m == Len(ss) \div 2
         IN  Flatten(SubSeq(ss, 1, m)) \o Flatten(SubSeq(ss, m + 1, Len(ss)))

\* s.replace(old, new) for a single character old; new is a string.
Replace(s, old, new) ==
    Flatten([i \in 1..Len(s) |-> IF s[i] = old THEN new ELSE <<s[i]>>])

\* s.strip()
Strip(s) ==
    LET kept == {i \in 1..Len(s) : ~IsSpace(s[i])}
    IN  IF kept = {} THEN <<>>
        ELSE SubSeq(s, CHOOSE i \in kept : \A j \in kept : i <= j,
                       CHOOSE i \in kept : \A j \in kept : i >= j)

\* Lines 11-16: the NFKD form of the text without its combining marks.
remove_accents(text) ==
    LET NFKD(c) ==
            CASE c = "a_acute" -> <<"a", "comb_acute">>
              [] c = "c_cedil" -> <<"c", "comb_cedil">>
              [] c = "C_cedil" -> <<"C", "comb_cedil">>
              [] c = "a_tilde" -> <<"a", "comb_tilde">>
              [] c = "A_tilde" -> <<"A", "comb_tilde">>
              [] c = "i_diaer" -> <<"i", "comb_diaer">>
              [] OTHER -> <<c>>
        Combining(c) == c \in {"comb_acute", "comb_cedil", "comb_tilde", "comb_diaer"}
    IN  SelectSeq(Flatten([i \in 1..Len(text) |-> NFKD(text[i])]),
                  LAMBDA c : ~Combining(c))

\* str.lower()
Lower(s) ==
    LET LowerTable ==
        "A" :> "a" @@
        "B" :> "b" @@
        "C" :> "c" @@
        "D" :> "d" @@
        "E" :> "e" @@
        "F" :> "f" @@
        "G" :> "g" @@
        "H" :> "h" @@
        "I" :> "i" @@
        "J" :> "j" @@
        "K" :> "k" @@
        "L" :> "l" @@
        "M" :> "m" @@
        "N" :> "n" @@
        "O" :> "o" @@
        "P" :> "p" @@
        "Q" :> "q" @@
        "R" :> "r" @@
        "S" :> "s" @@
        "T" :> "t" @@
        "U" :> "u" @@
        "V" :> "v" @@
        "W" :> "w" @@
        "X" :> "x" @@
        "Y" :> "y" @@
        "Z" :> "z" @@
        "A_tilde" :> "a_tilde" @@
        "C_cedil" :> "c_cedil"
    IN  [i \in 1..Len(s) |->
            IF s[i] \in DOMAIN LowerTable THEN LowerTable[s[i]] ELSE s[i]]

\* normalize_str with the hyphens turned into spaces after the whitespace has
\* been collapsed.
normalize_str_hyphen_late(value) ==
    Replace(Flatten([i \in 1..Len(Lower(remove_accents(Strip(Replace(value, "BOM", <<>>))))) |->
                IF ~IsSpace(Lower(remove_accents(Strip(Replace(value, "BOM", <<>>))))[i])
                THEN <<Lower(remove_accents(Strip(Replace(value, "BOM", <<>>))))[i]>>
                ELSE IF i = 1
                        \/ ~IsSpace(Lower(remove_accents(Strip(Replace(value, "BOM", <<>>))))[i - 1])
                THEN <<"_">>
                ELSE <<>>]),
            "-", <<" ">>)

\* normalize_str for a string value (lines 23-29); the missing value is
\* handled by the callers through normalize_cell.  The last step is
\* re.sub(r'\s+', '_', s): every maximal run of whitespace becomes one "_".
normalize_str(value) ==
    LET s1 == Strip(Replace(value, "BOM", <<>>))
        s2 == Lower(remove_accents(s1))
        s3 == Replace(Replace(s2, "TAB", <<" ">>), "-", <<"_">>)
    IN  Flatten([i \in 1..Len(s3) |->
                    IF ~IsSpace(s3[i]) THEN <<s3[i]>>
                    ELSE IF i = 1 \/ ~IsSpace(s3[i - 1]) THEN <<"_">>
                    ELSE <<>>])

(***************************************************************************)
(* Cells of a DataFrame                                                    *)
(*                                                                         *)
(* k = "nan"   the missing value (np.nan)                                  *)
(* k = "str"   a Python str, s its characters                              *)
(* k = "int"   an int64, v its value, s its str()                          *)
(* k = "float" a float64, v its value, s its str()                         *)
(* k = "lit"   a str that is one of the code's literals, e its text        *)
(* k = "bool"  a bool, b its value                                         *)
(***************************************************************************)
NaNCell == [k |-> "nan", s |-> <<>>, v |-> NaN, e |-> "", b |-> FALSE]
StrCell(s) == [k |-> "str", s |-> s, v |-> NaN, e |-> "", b |-> FALSE]
IntCell(s, v) == [k |-> "int", s |-> s, v |-> v, e |-> "", b |-> FALSE]
FloatCell(s, v) == [k |-> "float", s |-> s, v |-> v, e |-> "", b |-> FALSE]
LitCell(e) == [k |-> "lit", s |-> <<>>, v |-> NaN, e |-> e, b |-> FALSE]
BoolCell(b) == [k |-> "bool", s |-> <<>>, v |-> NaN, e |-> "", b |-> b]

\* pd.isna / pd.notna of a scalar cell
isna(c) == c.k = "nan"

\* str(value) of a scalar cell holding a str, a number or NaN
Str(c) ==
    CASE c.k = "nan" -> Lit["nan"]
      [] c.k = "lit" -> Lit[c.e]
      [] OTHER -> c.s

(***************************************************************************)
(* Numbers in text: digits, optionally "." and digits, and "inf"           *)
(***************************************************************************)
DigitVal ==
    "0" :> 0 @@ "1" :> 1 @@ "2" :> 2 @@ "3" :> 3 @@ "4" :> 4 @@
    "5" :> 5 @@ "6" :> 6 @@ "7" :> 7 @@ "8" :> 8 @@ "9" :> 9

RECURSIVE IntOf(_)
IntOf(ds) ==
    IF ds = <<>> THEN 0 ELSE 10 * IntOf(SubSeq(ds, 1, Len(ds) - 1)) + DigitVal[ds[Len(ds)]]

\* The position of the first "." of s, 0 when there is none.
DotPos(s) ==
    LET dots == {i \in 1..Len(s) : s[i] = "."}
    IN  IF dots = {} THEN 0 ELSE CHOOSE i \in dots : \A j \in dots : i <= j

IsIntText(s) == s # <<>> /\ \A i \in 1..Len(s) : s[i] \in DOMAIN DigitVal
\* "inf" is read as the float infinity, the rational with denominator 0.
IsFloatText(s) ==
    \/ s = <<"i", "n", "f">>
    \/ /\ DotPos(s) > 1
       /\ DotPos(s) < Len(s)
       /\ IsIntText(SubSeq(s, 1, DotPos(s) - 1))
       /\ IsIntText(SubSeq(s, DotPos(s) + 1, Len(s)))
IsNumText(s) == IsIntText(s) \/ IsFloatText(s)

\* The value of a number text.
NumValue(s) ==
    IF IsIntText(s) THEN R(IntOf(s), 1)
    ELSE IF s = <<"i", "n", "f">> THEN R(1, 0)
    ELSE LET dp == DotPos(s)
             frac == SubSeq(s, dp + 1, Len(s))
         IN  RNorm(R(IntOf(SubSeq(s, 1, dp - 1)) * 10 ^ Len(frac) + IntOf(frac),
                     10 ^ Len(frac)))

\* str() of the int a digit text parses to: no leading zeros.
IntRepr(s) ==
    LET kept == {i \in 1..Len(s) : s[i] # "0"} \cup {Len(s)}
    IN  SubSeq(s, CHOOSE i \in kept : \A j \in kept : i <= j, Len(s))
\* str() of the float a number text parses to: no leading zeros, no trailing
\* zeros after the first decimal.
FloatRepr(s) ==
    IF IsIntText(s) THEN IntRepr(s) \o <<".", "0">>
    ELSE IF s = <<"i", "n", "f">> THEN s
    ELSE LET dp == DotPos(s)
             kept == {i \in (dp + 1)..Len(s) : s[i] # "0"} \cup {dp + 1}
         IN  IntRepr(SubSeq(s, 1, dp - 1))
             \o SubSeq(s, dp, CHOOSE i \in kept : \A j \in kept : i >= j)

\* pd.to_numeric(value, errors="coerce") of one cell: a float64 or NaN.
to_numeric(c) ==
    CASE c.k \in {"int", "float"} -> c
      [] c.k = "str" /\ IsNumText(c.s) -> FloatCell(FloatRepr(c.s), NumValue(c.s))
      [] c.k = "bool" -> FloatCell(IF c.b THEN <<"1", ".", "0">> ELSE <<"0", ".", "0">>,
                                   IF c.b THEN R(1, 1) ELSE R(0, 1))
      [] OTHER -> NaNCell

(***************************************************************************)
(* CSV decoder (processing.py, try_read_csv_bytes)                         *)
(*                                                                         *)
(* A byte below 0x80 is the ASCII character itself; the other bytes the    *)
(* model uses are "xC3", "xA1", "xE1", "xEF", "xBB", "xBF".                *)
(***************************************************************************)
BOMBytes == <<"xEF", "xBB", "xBF">>

HasPrefix(s, pre) == Len(s) >= Len(pre) /\ SubSeq(s, 1, Len(pre)) = pre
Drop(s, k) == SubSeq(s, k + 1, Len(s))

\* bytes.decode("utf-8"): the characters, or <<"DecodeError">> in front of
\* the rest when a byte sequence is not UTF-8.
DecodeUtf8(bs) ==
    LET at(i) == IF i >= 1 /\ i <= Len(bs) THEN bs[i] ELSE "none"
        char(i) ==
            CASE bs[i] \notin {"xC3", "xA1", "xE1", "xEF", "xBB", "xBF"} -> <<bs[i]>>
              [] bs[i] = "xC3" /\ at(i + 1) = "xA1" -> <<"a_acute">>
              [] bs[i] = "xA1" /\ at(i - 1) = "xC3" -> <<>>
              [] bs[i] = "xEF" /\ at(i + 1) = "xBB" /\ at(i + 2) = "xBF" -> <<"BOM">>
              [] bs[i] = "xBB" /\ at(i - 1) = "xEF" /\ at(i + 1) = "xBF" -> <<>>
              [] bs[i] = "xBF" /\ at(i - 2) = "xEF" /\ at(i - 1) = "xBB" -> <<>>
              [] OTHER -> <<"DecodeError">>
    IN  Flatten([i \in 1..Len(bs) |-> char(i)])

\* bytes.decode("latin1"), also cp1252 and iso-8859-1 on these bytes.
DecodeLatin1(bs) ==
    LET Latin1Char(b) ==
            CASE b = "xC3" -> "A_tilde"
              [] b = "xA1" -> "inv_excl"
              [] b = "xE1" -> "a_acute"
              [] b = "xEF" -> "i_diaer"
              [] b = "xBB" -> "raquo"
              [] b = "xBF" -> "inv_quest"
              [] OTHER -> b
    IN  [i \in 1..Len(bs) |-> Latin1Char(bs[i])]

\* The text the parser reads under an encoding; ok = FALSE is UnicodeDecodeError.
Decoded(text) == [ok |-> \A i \in 1..Len(text) : text[i] # "DecodeError", text |-> text]
Decode(bs, encoding) ==
    CASE encoding = "utf-8-sig" ->
             Decoded(DecodeUtf8(IF HasPrefix(bs, BOMBytes) THEN Drop(bs, 3) ELSE bs))
      [] encoding = "utf-8" ->
             \* the parser drops a signature in front of the first line
             Decoded(IF HasPrefix(bs, BOMBytes) THEN DecodeUtf8(Drop(bs, 3))
                     ELSE DecodeUtf8(bs))
      [] OTHER -> Decoded(DecodeLatin1(bs))

\* s.split(c)
SplitOn(s, c) ==
    LET at == {i \in 1..Len(s) : s[i] = c}
        \* the position of the k-th c; 0 and Len(s) + 1 around them
        pos(k) == IF k = 0 THEN 0
                  ELSE IF k > Cardinality(at) THEN Len(s) + 1
                  ELSE CHOOSE i \in at : Cardinality({j \in at : j < i}) = k - 1
    IN  [k \in 1..(Cardinality(at) + 1) |-> SubSeq(s, pos(k - 1) + 1, pos(k) - 1)]

\* The lines of a text, blank lines skipped (skip_blank_lines).
Lines(text) == SelectSeq(SplitOn(text, "NL"), LAMBDA l : l # <<>>)

\* The name pandas gives column j of a header: "Unnamed: j-1" for an empty
\* name, "name.k" for the k-th repetition of a name.
HeaderName(header, j) ==
    LET h == header[j]
        k == Cardinality({i \in 1..(j - 1) : header[i] = h})
        DigitChar == <<"1", "2", "3", "4", "5", "6", "7", "8", "9">>
    IN  IF h = <<>>
        THEN <<"U", "n", "n", "a", "m", "e", "d", ":", " ">>
             \o (IF j = 1 THEN <<"0">> ELSE <<DigitChar[j - 1]>>)
        ELSE IF k = 0 THEN h ELSE h \o <<".", DigitChar[k]>>

\* Type inference of one column of field texts: int64 when every value is
\* an integer, float64 when every value present is a number, object else.
InferColumn(texts) ==
    LET \* the texts read_csv takes for a missing value (those the files use)
        NAStrings == {<<>>, <<"n", "a", "n">>, <<"N", "a", "N">>, <<"N", "A">>}
        present == {i \in 1..Len(texts) : texts[i] \notin NAStrings}
        allnum == \A i \in present : IsNumText(texts[i])
        allint == present = 1..Len(texts) /\ \A i \in present : IsIntText(texts[i])
    IN  [i \in 1..Len(texts) |->
            IF i \notin present THEN NaNCell
            ELSE IF allint THEN IntCell(IntRepr(texts[i]), NumValue(texts[i]))
            ELSE IF allnum THEN FloatCell(FloatRepr(texts[i]), NumValue(texts[i]))
            ELSE StrCell(texts[i])]

ParseError == [ok |-> FALSE, df |-> [columns |-> <<>>, rows |-> <<>>]]

\* The table of a header and its data lines, split into fields; nindex is the
\* number of leading fields of each line that the parser takes for the index.
ParseTable(header, data, nindex) ==
    IF \E i \in 1..Len(data) : Len(data[i]) > Len(header) + nindex THEN ParseError
    ELSE [ok |-> TRUE,
          df |-> [columns |-> [j \in 1..Len(header) |-> HeaderName(header, j)],
                  rows |-> [i \in 1..Len(data) |->
                               [j \in 1..Len(header) |->
                                   InferColumn([r \in 1..Len(data) |->
                                       IF nindex + j <= Len(data[r])
                                       THEN data[r][nindex + j] ELSE <<>>])[i]]]]]

\* The lines of a file split into fields, the header first.  When the second
\* data line is longer than the first by the width of the header, the first
\* holds index names and is dropped; a first data line longer than the header
\* has an implicit index in front.
ParseFields(all) ==
    IF Len(all) >= 3 /\ Len(all[3]) = Len(all[2]) + Len(all[1])
    THEN ParseTable(all[1], SubSeq(all, 3, Len(all)), Len(all[2]))
    ELSE ParseTable(all[1], Tail(all),
                    IF Len(all) >= 2 /\ Len(all[2]) > Len(all[1])
                    THEN Len(all[2]) - Len(all[1]) ELSE 0)

ParseLines(lines, sep) ==
    IF lines = <<>> THEN ParseError
    ELSE ParseFields([i \in 1..Len(lines) |-> SplitOn(lines[i], sep)])

\* pd.read_csv(text, sep=sep, engine="python") on a decoded text.
ReadCsv(text, sep) == ParseLines(Lines(text), sep)

encodings == <<"utf-8-sig", "utf-8", "latin1", "cp1252", "iso-8859-1">>
separators == <<",", ";", "TAB">>
NAttempts == Len(encodings) * Len(separators)

ReadDecoded(d, sep) == IF d.ok THEN ReadCsv(d.text, sep) ELSE ParseError

\* The a-th pass with the loops exchanged: for each separator, every encoding.
Attempt_separator_major(data, a) ==
    ReadDecoded(Decode(data, encodings[((a - 1) % Len(encodings)) + 1]),
                separators[((a - 1) \div Len(encodings)) + 1])

\* The a-th pass of the two nested loops (lines 38-49).
Attempt(data, a) ==
    ReadDecoded(Decode(data, encodings[((a - 1) \div Len(separators)) + 1]),
                separators[((a - 1) % Len(separators)) + 1])

\* The last resort pd.read_csv(stream): UTF-8, comma.
DefaultRead(data) == ReadDecoded(Decode(data, "utf-8"), ",")

\* Line 45 without its test of the number of columns: any parse is taken.
Qualifies_any_parse(r) == r.ok

\* Lines 42-47: the parse did not raise and has more than one column.
Qualifies(r) == r.ok /\ Len(r.df.columns) > 1

\* The loops from attempt a on, r being the result of attempt a; when the 15
\* attempts are spent, the last resort.
RECURSIVE TryFrom(_, _, _)
TryFrom(data, a, r) ==
    IF Qualifies(r) THEN [ok |-> TRUE, df |-> r.df, attempt |-> a]
    ELSE IF a = NAttempts THEN DefaultRead(data) @@ [attempt |-> a + 1]
    ELSE TryFrom(data, a + 1, Attempt(data, a + 1))

\* ok = FALSE: the exception of the last resort parse propagates.
try_read_csv_bytes(data) == TryFrom(data, 1, Attempt(data, 1))

(***************************************************************************)
(* DataFrames: [columns: sequence of labels, rows: sequence of rows], a    *)
(* row being the sequence of its cells in column order.  Labels may repeat.*)
(***************************************************************************)
ColIdx(df, label) == {j \in 1..Len(df.columns) : df.columns[j] = label}
HasCol(df, label) == ColIdx(df, label) # {}
\* df[label] is a DataFrame, not a Series, when the label repeats.
IsFrame(df, label) == Cardinality(ColIdx(df, label)) > 1
\* df[label] when the label is unique: the Series of its cells.
GetCol(df, label) ==
    [i \in 1..Len(df.rows) |->
        df.rows[i][CHOOSE j \in ColIdx(df, label) : \A k \in ColIdx(df, label) : j <= k]]

\* df[label] = vals for a Series vals: every column of that label is set
\* (pandas broadcasts over a repeated label); a new label is appended.
SetCol(df, label, vals) ==
    IF HasCol(df, label)
    THEN [df EXCEPT !.rows =
            [i \in 1..Len(df.rows) |->
                [j \in 1..Len(df.columns) |->
                    IF df.columns[j] = label THEN vals[i] ELSE df.rows[i][j]]]]
    ELSE [columns |-> Append(df.columns, label),
          rows |-> [i \in 1..Len(df.rows) |-> Append(df.rows[i], vals[i])]]

\* df[label] = df[label].astype(str), applied to every column of the label.
AsTypeStr(df, label) ==
    [df EXCEPT !.rows =
        [i \in 1..Len(df.rows) |->
            [j \in 1..Len(df.columns) |->
                IF df.columns[j] = label THEN StrCell(Str(df.rows[i][j]))
                ELSE df.rows[i][j]]]]

\* next((x for x in row if pd.notna(x)), np.nan) over the columns of a label
FirstNotNa(df, label, i) ==
    LET idx == {j \in ColIdx(df, label) : ~isna(df.rows[i][j])}
    IN  IF idx = {} THEN NaNCell
        ELSE df.rows[i][CHOOSE j \in idx : \A k \in idx : j <= k]

\* Lines 167-169 and 188-189: a repeated label is collapsed row by row and
\* the result assigned back under the same label.
Collapse(df, label) ==
    IF HasCol(df, label) /\ IsFrame(df, label)
    THEN SetCol(df, label, [i \in 1..Len(df.rows) |-> FirstNotNa(df, label, i)])
    ELSE df

(***************************************************************************)
(* Categorical mappers (processing.py lines 56-123)                        *)
(***************************************************************************)
\* normalize_str of a scalar cell: "" for the missing value, else of str().
normalize_cell(c) == IF isna(c) THEN <<>> ELSE normalize_str(Str(c))

\* map_admission_type with a value of its own for "promocao", the key that
\* admission_map of main.py has.
map_admission_type_promocao(value) ==
    IF isna(value) THEN "vestibular"
    ELSE IF \/ Contains(normalize_cell(value), Lit["externa"])
            \/ Contains(normalize_cell(value), Lit["external"])
    THEN "transferencia_externa"
    ELSE IF \/ Contains(normalize_cell(value), Lit["interna"])
            \/ Contains(normalize_cell(value), Lit["internal"])
    THEN "transferencia_interna"
    ELSE IF Contains(normalize_cell(value), Lit["promocao"])
    THEN "promocao"
    ELSE IF \/ Contains(normalize_cell(value), Lit["bolsa"])
            \/ Contains(normalize_cell(value), Lit["scholarship"])
    THEN "bolsista"
    ELSE "vestibular"

map_admission_type(value) ==
    IF isna(value) THEN "vestibular"
    ELSE LET normalized == normalize_cell(value)
         IN  IF Contains(normalized, Lit["externa"]) \/ Contains(normalized, Lit["external"])
             THEN "transferencia_externa"
             ELSE IF Contains(normalized, Lit["interna"]) \/ Contains(normalized, Lit["internal"])
             THEN "transferencia_interna"
             ELSE IF \/ Contains(normalized, Lit["bolsa"])
                     \/ Contains(normalized, Lit["scholarship"])
                     \/ Contains(normalized, Lit["promocao"])
             THEN "bolsista"
             ELSE IF Contains(normalized, Lit["vestibular"]) \/ Contains(normalized, Lit["entrance"])
             THEN "vestibular"
             ELSE "vestibular"

map_enrollment_status(value) ==
    IF isna(value) THEN "ativo"
    ELSE LET normalized == normalize_cell(value)
         IN  IF \/ Contains(normalized, Lit["evadido"])
                \/ Contains(normalized, Lit["dropped"])
                \/ Contains(normalized, Lit["desistente"])
             THEN "evadido"
             ELSE IF \/ Contains(normalized, Lit["trancado"])
                     \/ Contains(normalized, Lit["suspended"])
                     \/ Contains(normalized, Lit["trancamento"])
             THEN "trancado"
             ELSE IF \/ Contains(normalized, Lit["ativo"])
                     \/ Contains(normalized, Lit["active"])
                     \/ Contains(normalized, Lit["matriculado"])
             THEN "ativo"
             ELSE "ativo"

\* map_discipline_status with the default of map_enrollment_status.
map_discipline_status_default_ativo(value) ==
    IF isna(value) THEN "ativo"
    ELSE IF \/ Contains(normalize_cell(value), Lit["aprovado"])
            \/ Contains(normalize_cell(value), Lit["approved"])
            \/ Contains(normalize_cell(value), Lit["passed"])
    THEN "aprovado"
    ELSE IF \/ Contains(normalize_cell(value), Lit["reprovado"])
            \/ Contains(normalize_cell(value), Lit["failed"])
            \/ Contains(normalize_cell(value), Lit["reprovacao"])
    THEN "reprovado"
    ELSE IF \/ Contains(normalize_cell(value), Lit["andamento"])
            \/ Contains(normalize_cell(value), Lit["progress"])
            \/ Contains(normalize_cell(value), Lit["cursando"])
    THEN "em_andamento"
    ELSE "ativo"

map_discipline_status(value) ==
    IF isna(value) THEN "em_andamento"
    ELSE LET normalized == normalize_cell(value)
         IN  IF \/ Contains(normalized, Lit["aprovado"])
                \/ Contains(normalized, Lit["approved"])
                \/ Contains(normalized, Lit["passed"])
             THEN "aprovado"
             ELSE IF \/ Contains(normalized, Lit["reprovado"])
                     \/ Contains(normalized, Lit["failed"])
                     \/ Contains(normalized, Lit["reprovacao"])
             THEN "reprovado"
             ELSE IF \/ Contains(normalized, Lit["andamento"])
                     \/ Contains(normalized, Lit["progress"])
                     \/ Contains(normalized, Lit["cursando"])
             THEN "em_andamento"
             ELSE "em_andamento"

\* map_payment_status without the keyword "vencido".
map_payment_status_without_vencido(value) ==
    IF isna(value) THEN "pendente"
    ELSE IF \/ Contains(normalize_cell(value), Lit["pago"])
            \/ Contains(normalize_cell(value), Lit["paid"])
            \/ Contains(normalize_cell(value), Lit["quitado"])
    THEN "pago"
    ELSE IF \/ Contains(normalize_cell(value), Lit["atrasado"])
            \/ Contains(normalize_cell(value), Lit["overdue"])
            \/ Contains(normalize_cell(value), Lit["late"])
    THEN "atrasado"
    ELSE "pendente"

map_payment_status(value) ==
    IF isna(value) THEN "pendente"
    ELSE LET normalized == normalize_cell(value)
         IN  IF \/ Contains(normalized, Lit["pago"])
                \/ Contains(normalized, Lit["paid"])
                \/ Contains(normalized, Lit["quitado"])
             THEN "pago"
             ELSE IF \/ Contains(normalized, Lit["atrasado"])
                     \/ Contains(normalized, Lit["overdue"])
                     \/ Contains(normalized, Lit["late"])
                     \/ Contains(normalized, Lit["vencido"])
             THEN "atrasado"
             ELSE IF Contains(normalized, Lit["pendente"]) \/ Contains(normalized, Lit["pending"])
             THEN "pendente"
             ELSE "pendente"

(***************************************************************************)
(* Column resolver and schema normaliser (process_university_data)         *)
(***************************************************************************)
PASSING_GRADE == R(6, 1)
MINIMUM_ATTENDANCE == R(75, 1)

\* Lines 133-162: the label a column has after df.rename(columns=
\* column_mapping); a column no rule matches keeps its name.
Renamed(col) ==
    LET col_lower == Lower(col)
        has(w) == Contains(col_lower, Lit[w])
    IN  IF (has("avaliacao") /\ has("curso")) \/ has("nota_avaliacao_curso")
        THEN Lit["course_evaluation"]
        ELSE IF (has("nota") /\ has("final")) \/ col_lower = Lit["nota_final"]
        THEN Lit["final_grade"]
        ELSE IF has("id") /\ has("aluno")
        THEN Lit["student_id"]
        ELSE IF has("curso") /\ ~has("avaliacao")
        THEN Lit["course"]
        ELSE IF has("periodo") \/ has("semestre") \/ has("letivo")
        THEN Lit["semester"]
        ELSE IF has("disciplina") /\ ~has("status")
        THEN Lit["discipline"]
        ELSE IF has("frequencia") \/ has("attendance")
        THEN Lit["attendance_pct"]
        ELSE IF (has("status") /\ has("pagamento")) \/ has("pagamento")
        THEN Lit["payment_status"]
        ELSE IF has("status") /\ has("disciplina")
        THEN Lit["discipline_status"]
        ELSE IF (has("avaliacao") /\ has("curso")) \/ (has("nota") /\ has("curso"))
        THEN Lit["course_evaluation"]
        ELSE IF has("status") /\ has("matricula")
        THEN Lit["enrollment_status"]
        ELSE IF has("forma") /\ has("ingresso")
        THEN Lit["admission_type"]
        ELSE IF has("ingresso") \/ has("admission")
        THEN Lit["admission_type"]
        ELSE IF col_lower = Lit["nota"]
        THEN Lit["final_grade"]
        ELSE col

numeric_columns == <<"final_grade", "attendance_pct", "course_evaluation">>
required == <<"student_id", "course", "semester", "discipline", "final_grade",
              "attendance_pct", "payment_status", "discipline_status",
              "course_evaluation", "enrollment_status">>
string_columns == <<"student_id", "course", "semester", "discipline">>

ConstCol(df, c) == [i \in 1..Len(df.rows) |-> c]

\* Lines 129 and 164: the names normalised, then renamed.
Step_rename(df) ==
    [df EXCEPT !.columns = [j \in 1..Len(df.columns) |-> Renamed(normalize_str(df.columns[j]))]]

\* Lines 166-169
Step_collapse(df) ==
    Collapse(Collapse(Collapse(df, Lit[numeric_columns[1]]), Lit[numeric_columns[2]]),
             Lit[numeric_columns[3]])

\* Lines 175-177 with the empty text in place of np.nan.
RECURSIVE AddMissing_empty_text(_, _)
AddMissing_empty_text(df, k) ==
    IF k > Len(required) THEN df
    ELSE AddMissing_empty_text(IF HasCol(df, Lit[required[k]]) THEN df
                               ELSE SetCol(df, Lit[required[k]], ConstCol(df, StrCell(<<>>))),
                               k + 1)

\* Lines 175-177: the required columns that are absent, appended in order.
RECURSIVE AddMissing(_, _)
AddMissing(df, k) ==
    IF k > Len(required) THEN df
    ELSE AddMissing(IF HasCol(df, Lit[required[k]]) THEN df
                    ELSE SetCol(df, Lit[required[k]], ConstCol(df, NaNCell)),
                    k + 1)

\* Lines 179-180
Step_admission(df) ==
    IF HasCol(df, Lit["admission_type"]) THEN df
    ELSE SetCol(df, Lit["admission_type"], ConstCol(df, StrCell(Lit["vestibular"])))

\* Lines 182-185
Step_astype(df) ==
    AsTypeStr(AsTypeStr(AsTypeStr(AsTypeStr(df, Lit[string_columns[1]]),
                                  Lit[string_columns[2]]),
                        Lit[string_columns[3]]),
              Lit[string_columns[4]])

\* Lines 187-190 with errors="raise": a text that is no number raises as well.
NumericRaises_on_text(df) ==
    \E k \in 1..Len(numeric_columns) :
        \/ IsFrame(df, Lit[numeric_columns[k]])
        \/ \E i \in 1..Len(df.rows) :
              /\ GetCol(df, Lit[numeric_columns[k]])[i].k = "str"
              /\ ~IsNumText(GetCol(df, Lit[numeric_columns[k]])[i].s)
\* Lines 187-190.  The collapse of line 189 leaves a repeated label repeated
\* (the Series is assigned to each of its columns), so df[num_col] is still a
\* DataFrame at line 190 and pd.to_numeric raises TypeError.
NumericRaises(df) == \E k \in 1..Len(numeric_columns) : IsFrame(df, Lit[numeric_columns[k]])
ToNumericCol(df, label) ==
    SetCol(df, label, [i \in 1..Len(df.rows) |-> to_numeric(GetCol(df, label)[i])])
Step_numeric(df) ==
    ToNumericCol(ToNumericCol(ToNumericCol(df, Lit[numeric_columns[1]]),
                              Lit[numeric_columns[2]]),
                 Lit[numeric_columns[3]])

\* Lines 192-195.  On a repeated label DataFrame.apply hands the mapper a whole
\* column; "if pd.isna(value)" on a Series raises ValueError.
categorical_columns == <<"admission_type", "enrollment_status", "discipline_status",
                         "payment_status">>
CategoricalRaises(df) ==
    \E k \in 1..Len(categorical_columns) : IsFrame(df, Lit[categorical_columns[k]])
Step_categorical(df) ==
    LET col(label) == GetCol(df, Lit[label])
        n == Len(df.rows)
        d1 == SetCol(df, Lit["admission_type"],
                     [i \in 1..n |-> LitCell(map_admission_type(col("admission_type")[i]))])
        d2 == SetCol(d1, Lit["enrollment_status"],
                     [i \in 1..n |-> LitCell(map_enrollment_status(col("enrollment_status")[i]))])
        d3 == SetCol(d2, Lit["discipline_status"],
                     [i \in 1..n |-> LitCell(map_discipline_status(col("discipline_status")[i]))])
    IN  SetCol(d3, Lit["payment_status"],
               [i \in 1..n |-> LitCell(map_payment_status(col("payment_status")[i]))])

\* Lines 197-202 with > in place of >= in is_passing.
Step_flags_gt(df) ==
    SetCol(SetCol(df, Lit["is_passing"],
                  [i \in 1..Len(df.rows) |->
                      BoolCell(FLt(PASSING_GRADE, GetCol(df, Lit["final_grade"])[i].v)
                               /\ FLt(MINIMUM_ATTENDANCE, GetCol(df, Lit["attendance_pct"])[i].v))]),
           Lit["at_risk"],
           [i \in 1..Len(df.rows) |->
               BoolCell(\/ FLt(GetCol(df, Lit["final_grade"])[i].v, PASSING_GRADE)
                        \/ FLt(GetCol(df, Lit["attendance_pct"])[i].v, MINIMUM_ATTENDANCE)
                        \/ GetCol(df, Lit["payment_status"])[i].e = "atrasado")])

\* Lines 197-202
Step_flags(df) ==
    LET grade == GetCol(df, Lit["final_grade"])
        att == GetCol(df, Lit["attendance_pct"])
        pay == GetCol(df, Lit["payment_status"])
        n == Len(df.rows)
        d1 == SetCol(df, Lit["is_passing"],
                     [i \in 1..n |-> BoolCell(FGe(grade[i].v, PASSING_GRADE)
                                              /\ FGe(att[i].v, MINIMUM_ATTENDANCE))])
    IN  SetCol(d1, Lit["at_risk"],
               [i \in 1..n |-> BoolCell(\/ FLt(grade[i].v, PASSING_GRADE)
                                        \/ FLt(att[i].v, MINIMUM_ATTENDANCE)
                                        \/ pay[i].e = "atrasado")])

EmptyFrame == [columns |-> <<>>, rows |-> <<>>]

\* Lines 187-202 on the table d1 that lines 129-185 built.
\* ok = FALSE: the call raises the exception named in error.
Step_convert(d1) ==
    IF NumericRaises(d1)
    THEN [ok |-> FALSE, error |-> "TypeError", df |-> EmptyFrame]
    ELSE IF CategoricalRaises(d1)
    THEN [ok |-> FALSE, error |-> "ValueError", df |-> EmptyFrame]
    ELSE [ok |-> TRUE, error |-> "",
          df |-> Step_flags(Step_categorical(Step_numeric(d1)))]

process_university_data(df) ==
    Step_convert(Step_astype(Step_admission(AddMissing(Step_collapse(Step_rename(df)), 1))))

(***************************************************************************)
(* Pandas column helpers used by the risk scorer                           *)
(***************************************************************************)
RECURSIVE SumNotNa(_)
SumNotNa(col) ==
    IF col = <<>> THEN R(0, 1)
    ELSE IF notna(Head(col)) THEN RAdd(Head(col), SumNotNa(Tail(col)))
    ELSE SumNotNa(Tail(col))

\* (col == v).sum()
CountEq(col, v) == Cardinality({i \in 1..Len(col) : col[i] = v})

Column(df, field) == [i \in 1..Len(df) |-> df[i][field]]

\* Series.mean(): the mean of the non-missing values, NaN when there is none.
Mean(col) ==
    LET k == Cardinality({i \in 1..Len(col) : notna(col[i])})
    IN  IF k = 0 THEN NaN ELSE RDivInt(SumNotNa(col), k)

(***************************************************************************)
(* Risk scorer (processing.py)                                             *)
(***************************************************************************)
\* Mutant of GradePoints: the band boundaries taken inclusive (<=).
GradePoints_le(sd) ==
    LET avg_grade == Mean(Column(sd, "final_grade"))
    IN  IF notna(avg_grade)
        THEN IF RLe(avg_grade, R(4, 1)) THEN 30
             ELSE IF RLe(avg_grade, R(6, 1)) THEN 20
             ELSE IF RLe(avg_grade, R(7, 1)) THEN 10
             ELSE 0
        ELSE 0

\* Grade part of the score: lines 214-221.
GradePoints(sd) ==
    LET avg_grade == Mean(Column(sd, "final_grade"))
    IN  IF notna(avg_grade)
        THEN IF RLt(avg_grade, R(4, 1)) THEN 30
             ELSE IF RLt(avg_grade, R(6, 1)) THEN 20
             ELSE IF RLt(avg_grade, R(7, 1)) THEN 10
             ELSE 0
        ELSE 0

\* Attendance part of the score: lines 223-230.
AttendancePoints(sd) ==
    LET avg_attendance == Mean(Column(sd, "attendance_pct"))
    IN  IF notna(avg_attendance)
        THEN IF RLt(avg_attendance, R(50, 1)) THEN 25
             ELSE IF RLt(avg_attendance, R(75, 1)) THEN 15
             ELSE IF RLt(avg_attendance, R(85, 1)) THEN 5
             ELSE 0
        ELSE 0

\* Mutant of PaymentPoints: the records counted are those NOT overdue.
PaymentPoints_not_overdue(sd) ==
    LET payment_issues == Len(sd) - CountEq(Column(sd, "payment_status"), "atrasado")
        total_records == Len(sd)
        payment_issue_rate == IF total_records > 0
                              THEN R(payment_issues, total_records)
                              ELSE R(0, 1)
    IN  RMul(payment_issue_rate, R(20, 1))

\* Payment part: lines 232-235. The rate is payment_issues / total_records.
PaymentPoints(sd) ==
    LET payment_issues == CountEq(Column(sd, "payment_status"), "atrasado")
        total_records == Len(sd)
        payment_issue_rate == IF total_records > 0
                              THEN R(payment_issues, total_records)
                              ELSE R(0, 1)
    IN  RMul(payment_issue_rate, R(20, 1))

\* Failure part: lines 237-239.
FailPoints(sd) ==
    LET failed_count == CountEq(Column(sd, "discipline_status"), "reprovado")
        total_records == Len(sd)
        fail_rate == IF total_records > 0
                     THEN R(failed_count, total_records)
                     ELSE R(0, 1)
    IN  RMul(fail_rate, R(15, 1))

\* Mutant of EvaluationPoints: the band boundaries taken exclusive (<).
EvaluationPoints_lt(sd) ==
    LET avg_evaluation == Mean(Column(sd, "course_evaluation"))
    IN  IF notna(avg_evaluation)
        THEN IF RLt(avg_evaluation, R(3, 1)) THEN 10
             ELSE IF RLt(avg_evaluation, R(5, 1)) THEN 5
             ELSE 0
        ELSE 0

\* Evaluation part: lines 241-246.
EvaluationPoints(sd) ==
    LET avg_evaluation == Mean(Column(sd, "course_evaluation"))
    IN  IF notna(avg_evaluation)
        THEN IF RLe(avg_evaluation, R(3, 1)) THEN 10
             ELSE IF RLe(avg_evaluation, R(5, 1)) THEN 5
             ELSE 0
        ELSE 0

\* risk_score after the last "+=" (line 246).
RiskScore(sd) ==
    RAdd(RAdd(RAdd(RAdd(R(GradePoints(sd), 1), R(AttendancePoints(sd), 1)),
                   PaymentPoints(sd)),
              FailPoints(sd)),
         R(EvaluationPoints(sd), 1))

\* Mutant of calculate_churn_probability: the score returned as a percentage
\* (no division by 100, no cap).
calculate_churn_probability_percent(sd) ==
    IF sd = <<>> THEN R(0, 1)
    ELSE RiskScore(sd)

calculate_churn_probability(sd) ==
    IF sd = <<>> THEN R(0, 1)
    ELSE RMin(RDivInt(RiskScore(sd), 100), R(1, 1))

\* Mutant of get_churn_risk_level: the band boundaries taken exclusive (>).
get_churn_risk_level_gt(probability) ==
    IF FLt(R(7, 10), probability) THEN "high"
    ELSE IF FLt(R(4, 10), probability) THEN "medium"
    ELSE "low"

get_churn_risk_level(probability) ==
    IF FGe(probability, R(7, 10)) THEN "high"
    ELSE IF FGe(probability, R(4, 10)) THEN "medium"
    ELSE "low"

(***************************************************************************)
(* Specification SpecChurn: the risk scorer applied to one student's       *)
(* records.  The records are appended one at a time from RecordPool, then  *)
(* calculate_churn_probability and get_churn_risk_level are applied, as    *)
(* calculate_student_churn_risk does for each student.                     *)
(***************************************************************************)
MaxRecords == 3

Rec(g, a, p, d, e) ==
    [final_grade |-> g, attendance_pct |-> a, payment_status |-> p,
     discipline_status |-> d, course_evaluation |-> e]

\* Canonical records of the pool: the band boundaries 4.0/6.0/7.0, 50/75/85
\* and 3/5 occur as values, and so do missing values.
RecordPool ==
    { Rec(R(3, 1), R(40, 1), "atrasado", "aprovado", R(2, 1)),
      Rec(R(4, 1), R(45, 1), "pago", "reprovado", R(2, 1)),
      Rec(R(5, 1), R(50, 1), "pago", "aprovado", R(2, 1)),
      Rec(R(7, 1), R(85, 1), "pago", "aprovado", R(8, 1)),
      Rec(NaN, NaN, "pendente", "em_andamento", NaN),
      Rec(R(3, 1), R(40, 1), "atrasado", "reprovado", R(3, 1)),
      Rec(R(6, 1), R(75, 1), "pago", "aprovado", R(5, 1)),
      Rec(R(3, 1), R(40, 1), "pago", "reprovado", R(8, 1)),
      Rec(R(5, 1), R(50, 1), "pago", "aprovado", R(5, 1)),
      Rec(R(9, 1), R(100, 1), "atrasado", "aprovado", R(3, 1)),
      Rec(R(65, 10), NaN, "pendente", "aprovado", R(10, 1)),
      Rec(NaN, R(90, 1), "pago", "em_andamento", NaN) }

\* The variables of the other specifications, at rest.
IdleChurn ==
    /\ student_data = <<>>
    /\ churn_probability = NaN
    /\ risk_level = "none"
IdlePipe ==
    /\ decoded = <<>>
    /\ df_raw = EmptyFrame
    /\ df_processed = EmptyFrame
    /\ attempt = 0
    /\ churn_data = <<>>
IdleText ==
    /\ input_value = NaNCell
    /\ normalized_once = <<>>
    /\ normalized_twice = <<>>
    /\ mapped = <<>>
\* The store data "[]" of a call that returns no table.
NoData == [columns |-> <<>>, index |-> <<>>, data |-> <<>>]
\* The tables students, disciplines and grades after init_db().
EmptyDb == [students |-> <<>>, disciplines |-> <<>>, grades |-> <<>>]
NoContents == [given |-> FALSE, data |-> <<>>]
IdleUpload ==
    /\ contents = NoContents
    /\ upload_status = ""
    /\ store_data = NoData
    /\ db = EmptyDb
    /\ session_active = TRUE
    /\ session_view = EmptyDb
    /\ save_raised = "not_called"
    /\ n_uploads = 0
    /\ workers = <<>>

InitChurn ==
    /\ pc = "build"
    /\ IdleChurn
    /\ IdlePipe
    /\ IdleUpload
    /\ IdleText

AddRecord ==
    /\ pc = "build"
    /\ Len(student_data) < MaxRecords
    /\ \E r \in RecordPool : student_data' = Append(student_data, r)
    /\ UNCHANGED <<pc, churn_probability, risk_level, pipeVars, uploadVars, textVars>>

CalculateChurn ==
    /\ pc = "build"
    /\ churn_probability' = calculate_churn_probability(student_data)
    /\ pc' = "scored"
    /\ UNCHANGED <<student_data, risk_level, pipeVars, uploadVars, textVars>>

GetRiskLevel ==
    /\ pc = "scored"
    /\ risk_level' = get_churn_risk_level(churn_probability)
    /\ pc' = "done"
    /\ UNCHANGED <<student_data, churn_probability, pipeVars, uploadVars, textVars>>

NextChurn == AddRecord \/ CalculateChurn \/ GetRiskLevel

SpecChurn == InitChurn /\ [][NextChurn]_vars

(***************************************************************************)
(* CSV files of the model: tables of texts, written with a separator and   *)
(* encoded, as the tests build them (csv_content.encode('utf-8')).         *)
(***************************************************************************)
\* The texts of the files, by their ASCII spelling ("Calculo" is "Cálculo").
Txt ==
    "id_aluno" :> <<"i", "d", "_", "a", "l", "u", "n", "o">> @@
    "curso" :> <<"c", "u", "r", "s", "o">> @@
    "periodo_letivo" :> <<"p", "e", "r", "i", "o", "d", "o", "_", "l", "e", "t", "i", "v", "o">> @@
    "disciplina" :> <<"d", "i", "s", "c", "i", "p", "l", "i", "n", "a">> @@
    "nota_final" :> <<"n", "o", "t", "a", "_", "f", "i", "n", "a", "l">> @@
    "frequencia_pct" :> <<"f", "r", "e", "q", "u", "e", "n", "c", "i", "a", "_", "p", "c", "t">> @@
    "status_pagamento" :> <<"s", "t", "a", "t", "u", "s", "_", "p", "a", "g", "a", "m", "e", "n", "t", "o">> @@
    "status_disciplina" :> <<"s", "t", "a", "t", "u", "s", "_", "d", "i", "s", "c", "i", "p", "l", "i", "n", "a">> @@
    "nota_avaliacao_curso" :> <<"n", "o", "t", "a", "_", "a", "v", "a", "l", "i", "a", "c", "a", "o", "_", "c", "u", "r", "s", "o">> @@
    "status_matricula" :> <<"s", "t", "a", "t", "u", "s", "_", "m", "a", "t", "r", "i", "c", "u", "l", "a">> @@
    "forma_ingresso" :> <<"f", "o", "r", "m", "a", "_", "i", "n", "g", "r", "e", "s", "s", "o">> @@
    "Nota" :> <<"N", "o", "t", "a">> @@
    "Nota Final" :> <<"N", "o", "t", "a", " ", "F", "i", "n", "a", "l">> @@
    "Frequencia" :> <<"F", "r", "e", "q", "u", "e", "n", "c", "i", "a">> @@
    "avaliacao_curso" :> <<"a", "v", "a", "l", "i", "a", "c", "a", "o", "_", "c", "u", "r", "s", "o">> @@
    "A001" :> <<"A", "0", "0", "1">> @@
    "A002" :> <<"A", "0", "0", "2">> @@
    "Engenharia" :> <<"E", "n", "g", "e", "n", "h", "a", "r", "i", "a">> @@
    "Medicina" :> <<"M", "e", "d", "i", "c", "i", "n", "a">> @@
    "2024.1" :> <<"2", "0", "2", "4", ".", "1">> @@
    "Calculo" :> <<"C", "a_acute", "l", "c", "u", "l", "o">> @@
    "Anatomia" :> <<"A", "n", "a", "t", "o", "m", "i", "a">> @@
    "8.0" :> <<"8", ".", "0">> @@
    "90.0" :> <<"9", "0", ".", "0">> @@
    "5.5" :> <<"5", ".", "5">> @@
    "70.0" :> <<"7", "0", ".", "0">> @@
    "7.5" :> <<"7", ".", "5">> @@
    "6.0" :> <<"6", ".", "0">> @@
    "85" :> <<"8", "5">> @@
    "pago" :> <<"p", "a", "g", "o">> @@
    "atrasado" :> <<"a", "t", "r", "a", "s", "a", "d", "o">> @@
    "aprovado" :> <<"a", "p", "r", "o", "v", "a", "d", "o">> @@
    "reprovado" :> <<"r", "e", "p", "r", "o", "v", "a", "d", "o">> @@
    "8" :> <<"8">> @@
    "7" :> <<"7">> @@
    "ativo" :> <<"a", "t", "i", "v", "o">> @@
    "evadido" :> <<"e", "v", "a", "d", "i", "d", "o">> @@
    "vestibular" :> <<"v", "e", "s", "t", "i", "b", "u", "l", "a", "r">> @@
    "Transferencia Externa" :> <<"T", "r", "a", "n", "s", "f", "e", "r", "e", "n", "c", "i", "a", " ", "E", "x", "t", "e", "r", "n", "a">> @@
    "abc" :> <<"a", "b", "c">> @@
    "75.0" :> <<"7", "5", ".", "0">> @@
    "4.0" :> <<"4", ".", "0">> @@
    "inf" :> <<"i", "n", "f">> @@
    "Pagamento" :> <<"P", "a", "g", "a", "m", "e", "n", "t", "o">> @@
    "Status Disciplina Curso" :> <<"S", "t", "a", "t", "u", "s", " ", "D", "i", "s", "c", "i", "p", "l", "i", "n", "a", " ", "C", "u", "r", "s", "o">> @@
    "Curso, Turno" :> <<"C", "u", "r", "s", "o", ",", " ", "T", "u", "r", "n", "o">> @@
    "Engenharia, Noite" :> <<"E", "n", "g", "e", "n", "h", "a", "r", "i", "a", ",", " ", "N", "o", "i", "t", "e">> @@
    "Em atraso" :> <<"E", "m", " ", "a", "t", "r", "a", "s", "o">> @@
    "Reprovacao" :> <<"R", "e", "p", "r", "o", "v", "a", "c", "a", "o">> @@
    "Trancamento" :> <<"T", "r", "a", "n", "c", "a", "m", "e", "n", "t", "o">> @@
    "Promocao" :> <<"P", "r", "o", "m", "o", "c", "a", "o">> @@
    "xyz" :> <<"x", "y", "z">> @@
    "unknown" :> <<"u", "n", "k", "n", "o", "w", "n">> @@
    "externo" :> <<"e", "x", "t", "e", "r", "n", "o">> @@
    "pendente" :> <<"p", "e", "n", "d", "e", "n", "t", "e">> @@
    "" :> <<>>

\* The tables of the files, by name: a header and rows of texts.
\*   standard          the ten standard columns, one row (the end-to-end
\*                     scenario)
\*   two_students      with the admission column, two students
\*   two_grades        "Nota" and "Nota Final" both resolve to final_grade
\*   two_attendances, two_evaluations   the same for the other numeric fields
\*   no_student_id, no_course           a required identity column is absent
\*   two_columns, one_column, no_rows, bad_number
\*   flags             six records around the thresholds 6.0 and 75.0
\*   free_text         categorical values that are no keyword of the mappers
\*   comma_in_texts    a column name and a cell with a comma
\*   infinite          the course evaluation of the second record is "inf"
\*   status_of_course  a discipline status column whose name mentions the course
\*   two_payments      two columns that resolve to payment_status
\*   changed_course    two records of one student with different courses
Tables ==
    LET Row(texts) == [i \in 1..Len(texts) |-> Txt[texts[i]]]
        Without(seq, k) ==
            [i \in 1..(Len(seq) - 1) |-> IF i < k THEN seq[i] ELSE seq[i + 1]]
        Header10 ==
            <<"id_aluno", "curso", "periodo_letivo", "disciplina", "nota_final",
              "frequencia_pct", "status_pagamento", "status_disciplina",
              "nota_avaliacao_curso", "status_matricula">>
        RowA001 ==
            <<"A001", "Engenharia", "2024.1", "Calculo", "8.0", "90.0", "pago",
              "aprovado", "8", "ativo">>
        RowA002 ==
            <<"A002", "Medicina", "2024.1", "Anatomia", "5.5", "70.0", "atrasado",
              "reprovado", "7", "evadido">>
    IN  "standard" :> [header |-> Row(Header10), rows |-> <<Row(RowA001)>>] @@
        "two_students" :>
            [header |-> Row(Append(Header10, "forma_ingresso")),
             rows |-> <<Row(Append(RowA001, "vestibular")),
                        Row(Append(RowA002, "Transferencia Externa"))>>] @@
        "two_grades" :>
            [header |-> Row(<<"id_aluno", "curso", "disciplina", "Nota", "Nota Final">>),
             rows |-> <<Row(<<"A001", "Engenharia", "Calculo", "", "7.5">>),
                        Row(<<"A002", "Medicina", "Anatomia", "6.0", "8.0">>)>>] @@
        "two_attendances" :>
            [header |-> Row(<<"id_aluno", "curso", "nota_final", "frequencia_pct",
                              "Frequencia">>),
             rows |-> <<Row(<<"A001", "Engenharia", "8.0", "", "90.0">>),
                        Row(<<"A002", "Medicina", "5.5", "70.0", "85">>)>>] @@
        "two_evaluations" :>
            [header |-> Row(<<"id_aluno", "curso", "nota_final", "avaliacao_curso",
                              "nota_avaliacao_curso">>),
             rows |-> <<Row(<<"A001", "Engenharia", "8.0", "8", "">>),
                        Row(<<"A002", "Medicina", "5.5", "", "7">>)>>] @@
        "no_student_id" :>
            [header |-> Row(Without(Header10, 1)), rows |-> <<Row(Without(RowA001, 1))>>] @@
        "no_course" :>
            [header |-> Row(Without(Header10, 2)),
             rows |-> <<Row(Without(RowA001, 2)), Row(Without(RowA002, 2))>>] @@
        "two_columns" :>
            [header |-> Row(<<"disciplina", "nota_final">>),
             rows |-> <<Row(<<"Calculo", "8.0">>)>>] @@
        "one_column" :>
            [header |-> Row(<<"disciplina">>), rows |-> <<Row(<<"Calculo">>)>>] @@
        "no_rows" :> [header |-> Row(Header10), rows |-> <<>>] @@
        "bad_number" :>
            [header |-> Row(Header10),
             rows |-> <<Row(RowA001), [Row(RowA002) EXCEPT ![5] = Txt["abc"]]>>] @@
        "flags" :>
            [header |-> Row(Header10),
             rows |-> <<[Row(RowA001) EXCEPT ![5] = Txt["6.0"], ![6] = Txt["75.0"],
                                             ![7] = Txt["pendente"]],
                        [Row(RowA001) EXCEPT ![7] = Txt["atrasado"]],
                        [Row(RowA001) EXCEPT ![5] = Txt[""], ![6] = Txt[""]],
                        [Row(RowA002) EXCEPT ![5] = Txt["5.5"]],
                        [Row(RowA001) EXCEPT ![6] = Txt["70.0"]],
                        [Row(RowA002) EXCEPT ![5] = Txt[""], ![6] = Txt["90.0"]]>>] @@
        "free_text" :>
            [header |-> Row(Append(Header10, "forma_ingresso")),
             rows |-> <<Row(<<"A001", "Engenharia", "2024.1", "Calculo", "8.0", "90.0",
                              "Em atraso", "Reprovacao", "8", "Trancamento", "Promocao">>),
                        Row(<<"A002", "Medicina", "2024.1", "Anatomia", "5.5", "70.0",
                              "", "xyz", "7", "unknown", "externo">>)>>] @@
        "comma_in_texts" :>
            [header |-> Row(<<"id_aluno", "Curso, Turno", "nota_final">>),
             rows |-> <<Row(<<"A001", "Engenharia, Noite", "8.0">>)>>] @@
        "infinite" :>
            [header |-> Row(Header10),
             rows |-> <<Row(RowA001), [Row(RowA002) EXCEPT ![9] = Txt["inf"]]>>] @@
        "status_of_course" :>
            [header |-> Row(<<"id_aluno", "Status Disciplina Curso", "nota_final">>),
             rows |-> <<Row(<<"A001", "reprovado", "4.0">>)>>] @@
        "two_payments" :>
            [header |-> Row(<<"id_aluno", "status_pagamento", "Pagamento">>),
             rows |-> <<Row(<<"A001", "", "pago">>)>>] @@
        "changed_course" :>
            [header |-> Row(Header10),
             rows |-> <<[Row(RowA001) EXCEPT ![2] = Txt["Medicina"], ![4] = Txt["Anatomia"]],
                        Row(RowA001)>>]

\* sep.join(parts)
Join(parts, sep) ==
    IF parts = <<>> THEN <<>>
    ELSE Flatten([i \in 1..(2 * Len(parts) - 1) |->
                     IF i % 2 = 1 THEN parts[(i + 1) \div 2] ELSE <<sep>>])

\* The text of a table written with separator sep, one line per row.
CsvText(t, sep) ==
    Join([i \in 1..(Len(t.rows) + 1) |->
             Join(IF i = 1 THEN t.header ELSE t.rows[i - 1], sep)], "NL")

\* str.encode(encoding)
Encode(text, encoding) ==
    LET byte(c) == IF c = "a_acute"
                   THEN (IF encoding \in {"utf-8", "utf-8-sig"}
                         THEN <<"xC3", "xA1">> ELSE <<"xE1">>)
                   ELSE <<c>>
    IN  (IF encoding = "utf-8-sig" THEN BOMBytes ELSE <<>>)
        \o Flatten([i \in 1..Len(text) |-> byte(text[i])])

\* The files of a table: comma, semicolon or tab, in UTF-8 with or without
\* signature or in Latin-1.
FilesOf(t) ==
    {Encode(CsvText(t, sep), enc) :
        sep \in {",", ";", "TAB"}, enc \in {"utf-8", "utf-8-sig", "latin1"}}

(***************************************************************************)
(* Specification SpecPipeline: try_read_csv_bytes, then                    *)
(* process_university_data, then calculate_student_churn_risk, on one     *)
(* file.                                                                   *)
(***************************************************************************)
\* The cell of row i under a label of the canonical table.
Field(df, label, i) == GetCol(df, Lit[label])[i]

\* Mutant of calculate_student_churn_risk: avg_grade taken over the whole
\* table instead of the student's records.
calculate_student_churn_risk_whole_table(df) ==
    IF Len(df.rows) = 0 \/ ~HasCol(df, Lit["student_id"]) THEN [ok |-> TRUE, data |-> <<>>]
    ELSE IF IsFrame(df, Lit["student_id"]) THEN [ok |-> FALSE, data |-> <<>>]
    ELSE LET ids == GetCol(df, Lit["student_id"])
             all == [i \in 1..Len(df.rows) |->
                        Rec(Field(df, "final_grade", i).v, Field(df, "attendance_pct", i).v,
                            Field(df, "payment_status", i).e,
                            Field(df, "discipline_status", i).e,
                            Field(df, "course_evaluation", i).v)]
             Assess(i) ==
                 LET student_df == Flatten([j \in 1..Len(ids) |->
                                               IF ids[j] = ids[i] THEN <<all[j]>> ELSE <<>>])
                     churn_prob == calculate_churn_probability(student_df)
                 IN  [student_id |-> ids[i],
                      course |-> IF ~HasCol(df, Lit["course"]) THEN <<StrCell(Lit["N/A"])>>
                                 ELSE [c \in 1..Cardinality(ColIdx(df, Lit["course"])) |->
                                          df.rows[i][CHOOSE k \in ColIdx(df, Lit["course"]) :
                                              Cardinality({m \in ColIdx(df, Lit["course"]) :
                                                               m <= k}) = c]],
                      churn_probability |-> churn_prob,
                      risk_level |-> get_churn_risk_level(churn_prob),
                      avg_grade |-> Mean(Column(all, "final_grade")),
                      avg_attendance |-> Mean(Column(student_df, "attendance_pct")),
                      failed_count |-> CountEq(Column(student_df, "discipline_status"),
                                               "reprovado")]
         IN  [ok |-> TRUE,
              data |-> Flatten([i \in 1..Len(ids) |->
                                   IF \A j \in 1..(i - 1) : ids[j] # ids[i]
                                   THEN <<Assess(i)>> ELSE <<>>])]

\* dashboard.py, lines 140-165.  An empty table, or one without student_id,
\* gives no assessment.  df['student_id'] of a table with two student_id
\* columns is a DataFrame, which has no unique(): AttributeError.  For each
\* student_id in order of first appearance, student_df holds the records
\* carrying it and student_info is the first of them; its 'course' is one
\* cell, or one cell per course column when the label repeats.
calculate_student_churn_risk(df) ==
    IF Len(df.rows) = 0 \/ ~HasCol(df, Lit["student_id"]) THEN [ok |-> TRUE, data |-> <<>>]
    ELSE IF IsFrame(df, Lit["student_id"]) THEN [ok |-> FALSE, data |-> <<>>]
    ELSE LET ids == GetCol(df, Lit["student_id"])
             all == [i \in 1..Len(df.rows) |->
                        Rec(Field(df, "final_grade", i).v, Field(df, "attendance_pct", i).v,
                            Field(df, "payment_status", i).e,
                            Field(df, "discipline_status", i).e,
                            Field(df, "course_evaluation", i).v)]
             Assess(i) ==
                 LET student_df == Flatten([j \in 1..Len(ids) |->
                                               IF ids[j] = ids[i] THEN <<all[j]>> ELSE <<>>])
                     churn_prob == calculate_churn_probability(student_df)
                 IN  [student_id |-> ids[i],
                      course |-> IF ~HasCol(df, Lit["course"]) THEN <<StrCell(Lit["N/A"])>>
                                 ELSE [c \in 1..Cardinality(ColIdx(df, Lit["course"])) |->
                                          df.rows[i][CHOOSE k \in ColIdx(df, Lit["course"]) :
                                              Cardinality({m \in ColIdx(df, Lit["course"]) :
                                                               m <= k}) = c]],
                      churn_probability |-> churn_prob,
                      risk_level |-> get_churn_risk_level(churn_prob),
                      avg_grade |-> Mean(Column(student_df, "final_grade")),
                      avg_attendance |-> Mean(Column(student_df, "attendance_pct")),
                      failed_count |-> CountEq(Column(student_df, "discipline_status"),
                                               "reprovado")]
         IN  [ok |-> TRUE,
              data |-> Flatten([i \in 1..Len(ids) |->
                                   IF \A j \in 1..(i - 1) : ids[j] # ids[i]
                                   THEN <<Assess(i)>> ELSE <<>>])]

InitPipeline ==
    /\ pc = "decoded"
    /\ decoded \in UNION {FilesOf(Tables[t]) : t \in DOMAIN Tables} \cup {<<>>}
    /\ df_raw = EmptyFrame
    /\ df_processed = EmptyFrame
    /\ attempt = 0
    /\ churn_data = <<>>
    /\ IdleChurn
    /\ IdleUpload
    /\ IdleText

TryReadCsvBytes ==
    /\ pc = "decoded"
    /\ LET r == try_read_csv_bytes(decoded)
       IN  /\ df_raw' = r.df
           /\ attempt' = r.attempt
           /\ pc' = IF r.ok THEN "read" ELSE "read_failed"
    /\ UNCHANGED <<decoded, df_processed, churn_data, churnVars, uploadVars, textVars>>

ProcessUniversityData ==
    /\ pc = "read"
    /\ LET r == process_university_data(df_raw)
       IN  /\ df_processed' = r.df
           /\ pc' = IF r.ok THEN "processed" ELSE "process_failed"
    /\ UNCHANGED <<decoded, df_raw, attempt, churn_data, churnVars, uploadVars, textVars>>

\* The dashboard's callbacks hand the canonical table to
\* calculate_student_churn_risk.
CalculateStudentChurnRisk ==
    /\ pc = "processed"
    /\ LET r == calculate_student_churn_risk(df_processed)
       IN  /\ churn_data' = r.data
           /\ pc' = IF r.ok THEN "assessed" ELSE "assess_failed"
    /\ UNCHANGED <<decoded, df_raw, df_processed, attempt, churnVars, uploadVars, textVars>>

NextPipeline == TryReadCsvBytes \/ ProcessUniversityData \/ CalculateStudentChurnRisk

SpecPipeline == InitPipeline /\ [][NextPipeline]_vars

(***************************************************************************)
(* Specification SpecText: normalize_str applied once and twice, and the   *)
(* four categorical mappers, on one scalar value.                          *)
(***************************************************************************)
MaxLen == 3

\* The values: the missing value, an integer, every string of at most MaxLen
\* characters with an accent, upper case, the byte-order mark, a tab, a
\* hyphen, an underscore and a space, and the words of the unit tests and
\* their variants, alone and with something before or after.
Values ==
    LET Alphabet == {"a_acute", "A", "b", "BOM", "TAB", "-", "_", " "}
        Words ==
            <<
              <<"t", "r", "a", "n", "s", "f", "e", "r", "e", "n", "c", "i", "a", "_", "e", "x", "t", "e", "r", "n", "a">>,
              <<"E", "X", "T", "E", "R", "N", "A", "L", " ", "T", "R", "A", "N", "S", "F", "E", "R">>,
              <<"T", "r", "a", "n", "s", "f", "e", "r", "e", "n", "c", "i", "a", " ", "E", "x", "t", "e", "r", "n", "a">>,
              <<"e", "x", "t", "e", "r", "n", "o">>,
              <<"i", "n", "t", "e", "r", "n", "a", "l", " ", "t", "r", "a", "n", "s", "f", "e", "r">>,
              <<"b", "o", "l", "s", "i", "s", "t", "a">>,
              <<"P", "r", "o", "m", "o", "c_cedil", "a_tilde", "o">>,
              <<"v", "e", "s", "t", "i", "b", "u", "l", "a", "r">>,
              <<"e", "n", "t", "r", "a", "n", "c", "e", " ", "e", "x", "a", "m">>,
              <<"u", "n", "k", "n", "o", "w", "n">>,
              <<"x", "y", "z", "_", "u", "n", "k", "n", "o", "w", "n">>,
              <<"p", "a", "g", "o">>,
              <<"P", "A", "I", "D">>,
              <<"q", "u", "i", "t", "a", "d", "o">>,
              <<"a", "t", "r", "a", "s", "a", "d", "o">>,
              <<"o", "v", "e", "r", "d", "u", "e">>,
              <<"l", "a", "t", "e">>,
              <<"v", "e", "n", "c", "i", "d", "o">>,
              <<"E", "m", " ", "a", "t", "r", "a", "s", "o">>,
              <<"v", "e", "n", "c", "i", "d", "a">>,
              <<"p", "e", "n", "d", "e", "n", "t", "e">>,
              <<"p", "e", "n", "d", "i", "n", "g">>,
              <<"p", "a", "g", "o", " ", "a", "t", "r", "a", "s", "a", "d", "o">>,
              <<"a", "t", "i", "v", "o">>,
              <<"A", "C", "T", "I", "V", "E">>,
              <<"m", "a", "t", "r", "i", "c", "u", "l", "a", "d", "o">>,
              <<"e", "v", "a", "d", "i", "d", "o">>,
              <<"d", "r", "o", "p", "p", "e", "d">>,
              <<"t", "r", "a", "n", "c", "a", "d", "o">>,
              <<"T", "r", "a", "n", "c", "a", "m", "e", "n", "t", "o">>,
              <<"a", "p", "r", "o", "v", "a", "d", "o">>,
              <<"r", "e", "p", "r", "o", "v", "a", "d", "o">>,
              <<"R", "E", "P", "R", "O", "V", "A", "C_cedil", "A_tilde", "O">>,
              <<"c", "u", "r", "s", "a", "n", "d", "o">>,
              <<"e", "m", " ", "a", "n", "d", "a", "m", "e", "n", "t", "o">>,
              <<"f", "a", "i", "l", "e", "d">>
            >>
        Affixes == {<<>>, <<" ">>, <<"X", "-">>}
    IN  {NaNCell, IntCell(<<"1">>, R(1, 1))}
        \cup {StrCell(s) : s \in UNION {[1..n -> Alphabet] : n \in 0..MaxLen}}
        \cup {StrCell(p \o Words[w] \o q) : p \in Affixes, w \in DOMAIN Words, q \in Affixes}

InitText ==
    /\ pc = "value"
    /\ input_value \in Values
    /\ normalized_once = <<>>
    /\ normalized_twice = <<>>
    /\ mapped = <<>>
    /\ IdleChurn
    /\ IdlePipe
    /\ IdleUpload

NormalizeStr ==
    /\ pc = "value"
    /\ normalized_once' = normalize_cell(input_value)
    /\ pc' = "normalized"
    /\ UNCHANGED <<input_value, normalized_twice, mapped, churnVars, pipeVars, uploadVars>>

NormalizeAgain ==
    /\ pc = "normalized"
    /\ normalized_twice' = normalize_cell(StrCell(normalized_once))
    /\ pc' = "normalized_twice"
    /\ UNCHANGED <<input_value, normalized_once, mapped, churnVars, pipeVars, uploadVars>>

MapValue ==
    /\ pc = "normalized_twice"
    /\ mapped' = [admission_type |-> map_admission_type(input_value),
                  enrollment_status |-> map_enrollment_status(input_value),
                  discipline_status |-> map_discipline_status(input_value),
                  payment_status |-> map_payment_status(input_value)]
    /\ pc' = "mapped"
    /\ UNCHANGED <<input_value, normalized_once, normalized_twice, churnVars, pipeVars,
                   uploadVars>>

NextText == NormalizeStr \/ NormalizeAgain \/ MapValue

SpecText == InitText /\ [][NextText]_vars

(***************************************************************************)
(* Upload handler and persistence (main.py)                                *)
(***************************************************************************)
required_cols ==
    <<"id_aluno", "curso", "periodo_letivo", "disciplina", "nota_final",
      "frequencia_pct", "status_pagamento", "status_disciplina",
      "nota_avaliacao_curso", "status_matricula">>

\* Lines 160-172: the required columns no column of the raw table matches,
\* a match being containment either way after "_" is read as a space.
missing_cols(df) ==
    LET clean(name) == Strip(Replace(name, "_", <<" ">>))
        df_col_clean(j) == clean(Strip(Lower(df.columns[j])))
        req_normalized(k) == clean(Lower(Lit[required_cols[k]]))
        found(k) == \E j \in 1..Len(df.columns) :
                        \/ Contains(df_col_clean(j), req_normalized(k))
                        \/ Contains(req_normalized(k), df_col_clean(j))
    IN  SelectSeq(required_cols, LAMBDA r :
            \E k \in 1..Len(required_cols) : required_cols[k] = r /\ ~found(k))

\* A query that finds nothing: every key is taken for a new one.
Lookup_never_found(keys, key) == 0

\* session.query(Entity).filter_by(key=value).first(): the id of the row with
\* that key among the rows the transaction sees, 0 for None.
Lookup(keys, key) ==
    LET found == {i \in 1..Len(keys) : keys[i] = key}
    IN  IF found = {} THEN 0 ELSE CHOOSE i \in found : \A j \in found : i <= j

\* students_dict[key], disciplines_dict[key]: the id kept for a key that was
\* found or created; 0 when the key is not in the dict.
IdOf(keys, key) ==
    IF \E i \in 1..Len(keys) : keys[i] = key
    THEN CHOOSE i \in 1..Len(keys) : keys[i] = key /\ \A j \in 1..(i - 1) : keys[j] # key
    ELSE 0

StudentKeys(students) == [i \in 1..Len(students) |-> students[i].student_id]

\* Mutant of UniqueViolation: the columns declared without unique=True.
UniqueViolation_never(keys, key) == FALSE

\* The unique constraint of students.student_id and of disciplines.name,
\* enforced by the database when a row is inserted.
UniqueViolation(keys, key) == \E i \in 1..Len(keys) : keys[i] = key

\* Mutant of FirstOccurrences: the last occurrence of each value is kept
\* (keep='last').
FirstOccurrences_keep_last(seq) ==
    SelectSeq([i \in 1..Len(seq) |-> [i |-> i, x |-> seq[i]]],
              LAMBDA p : \A j \in (p.i + 1)..Len(seq) : seq[j] # p.x)

\* The distinct values of a sequence, in order of first appearance
\* (Series.unique, DataFrame.drop_duplicates).
FirstOccurrences(seq) ==
    SelectSeq([i \in 1..Len(seq) |-> [i |-> i, x |-> seq[i]]],
              LAMBDA p : \A j \in 1..(p.i - 1) : seq[j] # p.x)

\* "if name and str(name) != 'nan'"
Present(text) == text # <<>> /\ text # Lit["nan"]

admission_map(e) ==
    CASE e = "transferencia_externa" -> "EXTERNAL_TRANSFER"
      [] e = "transferencia_interna" -> "INTERNAL_TRANSFER"
      [] e \in {"bolsista", "promocao"} -> "SCHOLARSHIP"
      [] OTHER -> "ENTRANCE_EXAM"
enrollment_map(e) ==
    CASE e = "evadido" -> "DROPPED"
      [] e = "trancado" -> "SUSPENDED"
      [] OTHER -> "ACTIVE"
payment_map(e) ==
    CASE e = "pago" -> "PAID"
      [] e = "atrasado" -> "OVERDUE"
      [] OTHER -> "PENDING"
discipline_status_map(e) ==
    CASE e = "aprovado" -> "APPROVED"
      [] e = "reprovado" -> "FAILED"
      [] OTHER -> "IN_PROGRESS"

\* int(x) of a float: truncation toward zero; None for a missing value.
\* int() of an infinite float raises OverflowError (see SaveGrades).
IntOfFloat(x) ==
    IF x.nan \/ x.d = 0 THEN NaN
    ELSE IF x.n >= 0 THEN R(x.n \div x.d, 1) ELSE R(-((-x.n) \div x.d), 1)

\* A flush (lines 39 and 79): the INSERT of one row.  s is the run of
\* save_data_to_database so far: the rows its transaction sees, the error it
\* raised, the fault the database has in store.
FlushDiscipline(s, name) ==
    IF s.fault \in {"flush", "locked"} THEN [s EXCEPT !.raised = "OperationalError"]
    ELSE IF UniqueViolation(s.disciplines, name)
    THEN [s EXCEPT !.raised = "IntegrityError"]
    ELSE [s EXCEPT !.disciplines = Append(@, name)]
FlushStudent(s, student) ==
    IF s.fault \in {"flush", "locked"} THEN [s EXCEPT !.raised = "OperationalError"]
    ELSE IF UniqueViolation(StudentKeys(s.students), student.student_id)
    THEN [s EXCEPT !.raised = "IntegrityError"]
    ELSE [s EXCEPT !.students = Append(@, student)]

\* Lines 33-40, from the k-th distinct discipline name on.
RECURSIVE SaveDisciplines(_, _, _)
SaveDisciplines(s, names, k) ==
    IF k > Len(names) \/ s.raised # "" THEN s
    ELSE LET name == names[k].x
         IN  SaveDisciplines(
                 IF Present(name) /\ Lookup(s.disciplines, name) = 0
                 THEN FlushDiscipline(s, name) ELSE s,
                 names, k + 1)

\* Lines 45-80, from the k-th row of unique_students on.
RECURSIVE SaveStudents(_, _, _, _)
SaveStudents(s, df, firsts, k) ==
    IF k > Len(firsts) \/ s.raised # "" THEN s
    ELSE LET i == firsts[k].i
             student_id == firsts[k].x
             student == [student_id |-> student_id,
                         course |-> Str(Field(df, "course", i)),
                         admission_type |->
                             admission_map(Field(df, "admission_type", i).e),
                         enrollment_status |->
                             enrollment_map(Field(df, "enrollment_status", i).e)]
         IN  SaveStudents(
                 IF Present(student_id) /\ Lookup(StudentKeys(s.students), student_id) = 0
                 THEN FlushStudent(s, student) ELSE s,
                 df, firsts, k + 1)

\* Lines 82-120: the Grade of row i, when its student and discipline are in
\* students_dict and disciplines_dict.
HasGrade(s, df, i) ==
    /\ Present(Str(Field(df, "student_id", i)))
    /\ IdOf(StudentKeys(s.students), Str(Field(df, "student_id", i))) # 0
    /\ Present(Str(Field(df, "discipline", i)))
    /\ IdOf(s.disciplines, Str(Field(df, "discipline", i))) # 0
\* Mutant of GradeOf: every Grade refers to the first Student.
GradeOf_first_student(s, df, i) ==
    [student_id |-> 1,
     discipline_id |-> IdOf(s.disciplines, Str(Field(df, "discipline", i))),
     semester |-> Str(Field(df, "semester", i)),
     final_grade |-> Field(df, "final_grade", i).v,
     attendance_pct |-> Field(df, "attendance_pct", i).v,
     payment_status |-> payment_map(Field(df, "payment_status", i).e),
     discipline_status |-> discipline_status_map(Field(df, "discipline_status", i).e),
     course_evaluation |-> IntOfFloat(Field(df, "course_evaluation", i).v)]
GradeOf(s, df, i) ==
    [student_id |-> IdOf(StudentKeys(s.students), Str(Field(df, "student_id", i))),
     discipline_id |-> IdOf(s.disciplines, Str(Field(df, "discipline", i))),
     semester |-> Str(Field(df, "semester", i)),
     final_grade |-> Field(df, "final_grade", i).v,
     attendance_pct |-> Field(df, "attendance_pct", i).v,
     payment_status |-> payment_map(Field(df, "payment_status", i).e),
     discipline_status |-> discipline_status_map(Field(df, "discipline_status", i).e),
     course_evaluation |-> IntOfFloat(Field(df, "course_evaluation", i).v)]
\* The rows are taken in order; the first one whose Grade has an infinite
\* course_evaluation raises OverflowError at int(...) of line 118, after the
\* Grades of the rows in front of it were added to the session.
SaveGrades(s, df) ==
    IF s.raised # "" THEN s
    ELSE LET bad == {i \in 1..Len(df.rows) :
                        /\ HasGrade(s, df, i)
                        /\ notna(Field(df, "course_evaluation", i).v)
                        /\ Field(df, "course_evaluation", i).v.d = 0}
             last == IF bad = {} THEN Len(df.rows)
                     ELSE (CHOOSE i \in bad : \A j \in bad : i <= j) - 1
         IN  [s EXCEPT !.grades =
                  @ \o Flatten([i \in 1..last |->
                                   IF HasGrade(s, df, i) THEN <<GradeOf(s, df, i)>>
                                   ELSE <<>>]),
                       !.raised = IF bad = {} THEN "" ELSE "OverflowError"]

\* Line 122 and the return to the caller: the commit, which may fail.  An
\* exception of a flush or of the commit rolls the transaction back to the
\* committed rows d and leaves the session inactive, since nothing calls
\* session.rollback().  An exception of the Python code between the flushes
\* and the commit (OverflowError) leaves the session as it is: active, its
\* transaction open, with the rows flushed and added so far.
Commit(d, s) ==
    IF s.raised = "OverflowError"
    THEN [db |-> d, active |-> TRUE, raised |-> s.raised,
          view |-> [students |-> s.students, disciplines |-> s.disciplines,
                    grades |-> s.grades]]
    ELSE IF s.raised # "" THEN [db |-> d, active |-> FALSE, raised |-> s.raised, view |-> d]
    ELSE IF s.fault = "commit" \/ (s.fault = "locked" /\ s.grades # d.grades)
    THEN [db |-> d, active |-> FALSE, raised |-> "OperationalError", view |-> d]
    ELSE [db |-> [students |-> s.students, disciplines |-> s.disciplines,
                  grades |-> s.grades],
          active |-> TRUE, raised |-> "",
          view |-> [students |-> s.students, disciplines |-> s.disciplines,
                    grades |-> s.grades]]

\* str(row[label]) of every row.
TextColumn(df, label) == [i \in 1..Len(df.rows) |-> Str(Field(df, label, i))]

\* save_data_to_database(df) on the committed rows d, with a session that is
\* active or not and whose transaction sees the rows view (the committed rows
\* and those an earlier call left uncommitted in it), under a fault of the
\* database: "none", "flush" (the first flush fails), "commit" (the commit
\* fails) or "locked" (another session holds SQLite's write lock: every
\* INSERT fails).  The result holds the committed rows, the state of the session and
\* the exception raised ("" for none).  Every statement of an inactive
\* session raises PendingRollbackError.
save_data_to_database(df, d, view, active, fault) ==
    IF ~active
    THEN [db |-> d, active |-> FALSE, raised |-> "PendingRollbackError", view |-> d]
    ELSE Commit(d,
           SaveGrades(
             SaveStudents(
               SaveDisciplines([disciplines |-> view.disciplines,
                                students |-> view.students,
                                grades |-> view.grades, raised |-> "", fault |-> fault],
                               FirstOccurrences(TextColumn(df, "discipline")), 1),
               df, FirstOccurrences(TextColumn(df, "student_id")), 1),
             df))

\* df.to_json(orient="split"): the labels, the index and the rows, a missing
\* value written as null.
to_json(df) ==
    [columns |-> df.columns,
     index |-> [i \in 1..Len(df.rows) |-> i - 1],
     data |-> [i \in 1..Len(df.rows) |->
                  [j \in 1..Len(df.columns) |->
                      IF isna(df.rows[i][j]) THEN [NaNCell EXCEPT !.k = "null"]
                      ELSE df.rows[i][j]]]]

\* What handle_upload returns, and leaves in the database and the session,
\* when a stage in front of persistence stops the call.
Stopped(status, d, view, active) ==
    [status |-> status, data |-> NoData, db |-> d, active |-> active,
     raised |-> "not_called", view |-> view]

\* Lines 227-247 were the call of line 228 not guarded: an exception of
\* save_data_to_database reaches the handler's last except clause.
AfterSave_unguarded(processed, saved) ==
    [status |-> IF saved.raised # "" THEN "unexpected_error" ELSE "success",
     data |-> IF saved.raised # "" THEN NoData ELSE to_json(processed),
     db |-> saved.db, active |-> saved.active, raised |-> saved.raised,
     view |-> saved.view]

\* Lines 227-247: an exception of save_data_to_database is logged, and the
\* handler returns the success message and the table.
AfterSave(processed, saved) ==
    [status |-> "success", data |-> to_json(processed),
     db |-> saved.db, active |-> saved.active, raised |-> saved.raised,
     view |-> saved.view]

\* Lines 202-247 of handle_upload, from the result of process_university_data.
AfterProcess(processed, d, view, active, fault) ==
    IF ~processed.ok THEN Stopped("process_error", d, view, active)
    ELSE IF Len(processed.df.rows) = 0 THEN Stopped("empty_file", d, view, active)
    ELSE AfterSave(processed.df,
                   save_data_to_database(processed.df, d, view, active, fault))

\* The files handed to handle_upload.
Upload(t, sep, enc) == [given |-> TRUE, data |-> Encode(CsvText(t, sep), enc)]
UploadFiles ==
    {NoContents,
     Upload(Tables["standard"], ",", "utf-8"),
     Upload(Tables["two_students"], ";", "utf-8-sig"),
     Upload(Tables["two_grades"], ",", "utf-8"),
     Upload(Tables["no_student_id"], ",", "utf-8"),
     Upload(Tables["no_course"], ",", "utf-8"),
     Upload(Tables["two_columns"], ",", "utf-8"),
     Upload(Tables["one_column"], ",", "latin1"),
     Upload(Tables["no_rows"], ",", "utf-8"),
     Upload(Tables["bad_number"], "TAB", "latin1"),
     Upload(Tables["infinite"], ",", "utf-8"),
     Upload(Tables["changed_course"], ",", "utf-8")}

\* try_read_csv_bytes, the required-column check and
\* process_university_data depend on the file alone: what lines 140, 160-172
\* and 203 of handle_upload get for each file of the model.
UploadRun ==
    [c \in UploadFiles |->
        LET read == try_read_csv_bytes(c.data)
        IN  [read |-> read,
             missing_cols |-> IF read.ok THEN missing_cols(read.df) ELSE <<>>,
             processed |-> IF read.ok THEN process_university_data(read.df)
                           ELSE [ok |-> FALSE, df |-> EmptyFrame]]] @@ <<>>

\* Mutant of AfterRead: the required-column check of lines 156-200 left out.
AfterRead_no_column_check(c, d, view, active, fault) ==
    IF ~UploadRun[c].read.ok THEN Stopped("read_error", d, view, active)
    ELSE AfterProcess(UploadRun[c].processed, d, view, active, fault)

\* Lines 139-247 of handle_upload for the file c.
AfterRead(c, d, view, active, fault) ==
    IF ~UploadRun[c].read.ok THEN Stopped("read_error", d, view, active)
    ELSE IF Len(UploadRun[c].missing_cols) > 5
    THEN Stopped("invalid_format", d, view, active)
    ELSE AfterProcess(UploadRun[c].processed, d, view, active, fault)

\* handle_upload(contents, filename) on the committed rows d: the two values
\* returned, and what the call left in the database and the session.
handle_upload(c, d, view, active, fault) ==
    IF ~c.given THEN Stopped("", d, view, active)
    ELSE AfterRead(c, d, view, active, fault)

(***************************************************************************)
(* Specification SpecUpload: a sequence of uploads, each one call of       *)
(* handle_upload.  The database may fail at a flush or at the commit; the   *)
(* call runs on the thread of the previous call, with the same scoped      *)
(* session and what its transaction holds, or on a new thread, with a new   *)
(* session.                                                                 *)
(***************************************************************************)
MaxUploads == 2


InitUpload ==
    /\ pc = "serving"
    /\ IdleUpload
    /\ IdleChurn
    /\ IdlePipe
    /\ IdleText

\* The session of the variables holds SQLite's write lock while its open
\* transaction has flushed rows; a call on another thread then runs with a
\* session of its own that cannot write, and the session of the variables
\* stays as it is.
HandleUpload ==
    /\ pc = "serving"
    /\ n_uploads < MaxUploads
    /\ \E c \in UploadFiles, fault \in {"none", "flush", "commit"},
          same_thread \in BOOLEAN :
       \E blocked \in {~same_thread /\ (\/ session_view.students # db.students
                                         \/ session_view.disciplines # db.disciplines)} :
       \E r \in {handle_upload(c, db, IF same_thread THEN session_view ELSE db,
                               IF same_thread THEN session_active ELSE TRUE,
                               IF blocked THEN "locked" ELSE fault)} :
          /\ contents' = c
          /\ upload_status' = r.status
          /\ store_data' = r.data
          /\ db' = r.db
          /\ session_active' = IF blocked THEN session_active ELSE r.active
          /\ session_view' = IF blocked THEN session_view ELSE r.view
          /\ save_raised' = r.raised
    /\ n_uploads' = n_uploads + 1
    /\ UNCHANGED <<pc, workers, churnVars, pipeVars, textVars>>

NextUpload == HandleUpload

SpecUpload == InitUpload /\ [][NextUpload]_vars

(***************************************************************************)
(* Specification SpecRace: two calls of save_data_to_database that run at  *)
(* the same time in two threads, each with a session and a connection of   *)
(* its own, on one SQLite file.  A step is one statement sent to the        *)
(* database: a query, the flush of an INSERT, or the commit.  The first     *)
(* INSERT of a transaction takes SQLite's write lock, which is held until   *)
(* the transaction ends; another connection's INSERT waits for the lock     *)
(* (it takes no step) or gives up with "database is locked".                *)
(***************************************************************************)
\* The rows worker w's connection sees: the committed ones and those of its
\* own open transaction.
Visible(w) ==
    [students |-> db.students \o workers[w].students,
     disciplines |-> db.disciplines \o workers[w].disciplines,
     grades |-> db.grades, raised |-> "", fault |-> "none"]

InitRace ==
    /\ pc = "racing"
    /\ db \in {EmptyDb,
               save_data_to_database(
                   UploadRun[Upload(Tables["no_student_id"], ",", "utf-8")].processed.df,
                   EmptyDb, EmptyDb, TRUE, "none").db}
    /\ workers \in [1..2 ->
          {[table |-> UploadRun[c].processed.df, phase |-> "disciplines", k |-> 1,
            queried |-> FALSE, students |-> <<>>, disciplines |-> <<>>,
            raised |-> "", status |-> ""] :
             c \in {Upload(Tables["standard"], ",", "utf-8"),
                    Upload(Tables["two_students"], ";", "utf-8-sig"),
                    Upload(Tables["changed_course"], ",", "utf-8")}}]
    /\ contents = NoContents
    /\ upload_status = ""
    /\ store_data = NoData
    /\ session_active = TRUE
    /\ session_view = EmptyDb
    /\ save_raised = "not_called"
    /\ n_uploads = 0
    /\ IdleChurn
    /\ IdlePipe
    /\ IdleText

\* Lines 33-37 and 45-48: the next name of df['discipline'].unique(), or the
\* next row of unique_students, is looked up; one that is missing is passed
\* over, one that is found needs no INSERT.  After the last discipline come
\* the students, after the last student the Grades.
RaceQuery(w) ==
    /\ pc = "racing"
    /\ workers[w].status = ""
    /\ workers[w].phase \in {"disciplines", "students"}
    /\ ~workers[w].queried
    /\ \E label \in {IF workers[w].phase = "disciplines" THEN "discipline"
                     ELSE "student_id"} :
       \E items \in {FirstOccurrences(TextColumn(workers[w].table, label))} :
          workers' =
              [workers EXCEPT ![w] =
                  IF workers[w].k > Len(items)
                  THEN [@ EXCEPT !.phase = IF @ = "disciplines" THEN "students"
                                           ELSE "grades",
                                 !.k = 1]
                  ELSE IF /\ Present(items[workers[w].k].x)
                          /\ Lookup(IF label = "discipline" THEN Visible(w).disciplines
                                    ELSE StudentKeys(Visible(w).students),
                                    items[workers[w].k].x) = 0
                  THEN [@ EXCEPT !.queried = TRUE]
                  ELSE [@ EXCEPT !.k = @ + 1]]
    /\ UNCHANGED <<pc, db, contents, upload_status, store_data, session_active,
                   session_view, save_raised, n_uploads, churnVars, pipeVars, textVars>>

\* Lines 38-39 and 72-79: the entity that was not found is added and flushed.
\* With the write lock held by the other connection the INSERT runs into
\* the busy timeout (OperationalError); without it the unique constraint is
\* checked against the committed rows and the worker's own.  An exception
\* rolls the worker's transaction back and ends save_data_to_database;
\* handle_upload logs it and returns (lines 227-247): status is set, and the
\* worker takes no further step.
RaceFlush(w) ==
    /\ pc = "racing"
    /\ workers[w].status = ""
    /\ workers[w].phase \in {"disciplines", "students"}
    /\ workers[w].queried
    /\ \E label \in {IF workers[w].phase = "disciplines" THEN "discipline"
                     ELSE "student_id"} :
       \E item \in {FirstOccurrences(TextColumn(workers[w].table, label))[workers[w].k]} :
       \E locked \in {\E o \in 1..2 :
                         /\ o # w
                         /\ workers[o].students \o workers[o].disciplines # <<>>} :
       \E s \in {IF label = "discipline"
                 THEN FlushDiscipline([Visible(w) EXCEPT
                                          !.fault = IF locked THEN "locked" ELSE "none"],
                                      item.x)
                 ELSE FlushStudent(
                          [Visible(w) EXCEPT !.fault = IF locked THEN "locked" ELSE "none"],
                          [student_id |-> item.x,
                           course |-> Str(Field(workers[w].table, "course", item.i)),
                           admission_type |->
                               admission_map(
                                   Field(workers[w].table, "admission_type", item.i).e),
                           enrollment_status |->
                               enrollment_map(
                                   Field(workers[w].table, "enrollment_status",
                                         item.i).e)])} :
          workers' =
              [workers EXCEPT ![w] =
                  IF s.raised # ""
                  THEN [@ EXCEPT !.students = <<>>, !.disciplines = <<>>,
                                 !.raised = s.raised,
                                 !.status = AfterSave(workers[w].table,
                                                      [db |-> db, active |-> FALSE,
                                                       raised |-> s.raised,
                                                       view |-> db]).status]
                  ELSE [@ EXCEPT !.queried = FALSE, !.k = @ + 1,
                                 !.students = SubSeq(s.students, Len(db.students) + 1,
                                                     Len(s.students)),
                                 !.disciplines = SubSeq(s.disciplines,
                                                        Len(db.disciplines) + 1,
                                                        Len(s.disciplines))]]
    /\ UNCHANGED <<pc, db, contents, upload_status, store_data, session_active,
                   session_view, save_raised, n_uploads, churnVars, pipeVars, textVars>>

\* Lines 82-122: the Grades are added and the transaction is committed; the
\* INSERTs of the Grades, sent by the commit, need the write lock as well.
RaceCommit(w) ==
    /\ pc = "racing"
    /\ workers[w].status = ""
    /\ workers[w].phase = "grades"
    /\ \E locked \in {\E o \in 1..2 :
                         /\ o # w
                         /\ workers[o].students \o workers[o].disciplines # <<>>} :
       \E r \in {Commit(db, SaveGrades([Visible(w) EXCEPT
                                           !.fault = IF locked THEN "locked" ELSE "none"],
                                       workers[w].table))} :
          /\ db' = r.db
          /\ workers' =
                [workers EXCEPT ![w] =
                    [@ EXCEPT !.students = <<>>,
                              !.disciplines = <<>>, !.raised = r.raised,
                              !.status = AfterSave(workers[w].table, r).status]]
    /\ UNCHANGED <<pc, contents, upload_status, store_data, session_active,
                   session_view, save_raised, n_uploads, churnVars, pipeVars, textVars>>

NextRace == \E w \in 1..2 : RaceQuery(w) \/ RaceFlush(w) \/ RaceCommit(w)

SpecRace == InitRace /\ [][NextRace]_vars

(***************************************************************************)
(* Claims about the risk scorer                                            *)
(***************************************************************************)
Scored == pc \in {"scored", "done"}

\* The scenario of C1: three records, grades 3.0, 4.0, 5.0, attendance 40, 45,
\* 50, exactly one overdue payment, exactly one failed discipline, evaluation 2.
C1_Scenario ==
    /\ Len(student_data) = 3
    /\ Column(student_data, "final_grade") = <<R(3, 1), R(4, 1), R(5, 1)>>
    /\ Column(student_data, "attendance_pct") = <<R(40, 1), R(45, 1), R(50, 1)>>
    /\ Cardinality({i \in 1..3 : student_data[i].payment_status = "atrasado"}) = 1
    /\ Cardinality({i \in 1..3 : student_data[i].discipline_status = "reprovado"}) = 1
    /\ \A i \in 1..3 : student_data[i].course_evaluation = R(2, 1)

\* C1 as stated: the scenario yields risk level "high", probability >= 0.70,
\* with the grade band contributing +30 and the attendance band +25.
C1_Original ==
    (pc = "done" /\ C1_Scenario) =>
        /\ risk_level = "high"
        /\ FGe(churn_probability, R(7, 10))
        /\ GradePoints(student_data) = 30
        /\ AttendancePoints(student_data) = 25

\* C1 amended: the mean grade of 3.0, 4.0, 5.0 is exactly 4.0, which is not
\* below 4.0, so the grade band contributes +20; with attendance +25, payment
\* 20/3, failure 15/3 and evaluation +10 the probability is 2/3 (below 0.70)
\* and the risk level is "medium".
C1_Amended ==
    (pc = "done" /\ C1_Scenario) =>
        /\ risk_level = "medium"
        /\ notna(churn_probability)
        /\ REq(churn_probability, R(2, 3))
        /\ GradePoints(student_data) = 20
        /\ AttendancePoints(student_data) = 25

C1_Witness == pc = "done" /\ C1_Scenario

\* The sum S of C3, times the number n of records (an integer): the three
\* bands are read off the column sums, the two rates off the counts.
C3_Sum(col) == SumNotNa(col)
C3_Cnt(col) == Cardinality({i \in 1..Len(col) : ~col[i].nan})
C3_MeanLt(col, k) == C3_Cnt(col) > 0 /\ RLt(C3_Sum(col), R(k * C3_Cnt(col), 1))
C3_MeanLe(col, k) == C3_Cnt(col) > 0 /\ RLe(C3_Sum(col), R(k * C3_Cnt(col), 1))
C3_GradeBand(sd) ==
    LET c == Column(sd, "final_grade")
    IN  CASE C3_MeanLt(c, 4) -> 30
          [] ~C3_MeanLt(c, 4) /\ C3_MeanLt(c, 6) -> 20
          [] ~C3_MeanLt(c, 6) /\ C3_MeanLt(c, 7) -> 10
          [] OTHER -> 0
C3_AttendanceBand(sd) ==
    LET c == Column(sd, "attendance_pct")
    IN  CASE C3_MeanLt(c, 50) -> 25
          [] ~C3_MeanLt(c, 50) /\ C3_MeanLt(c, 75) -> 15
          [] ~C3_MeanLt(c, 75) /\ C3_MeanLt(c, 85) -> 5
          [] OTHER -> 0
C3_EvaluationBand(sd) ==
    LET c == Column(sd, "course_evaluation")
    IN  CASE C3_MeanLe(c, 3) -> 10
          [] ~C3_MeanLe(c, 3) /\ C3_MeanLe(c, 5) -> 5
          [] OTHER -> 0
C3_SumTimesN(sd) ==
    Len(sd) * (C3_GradeBand(sd) + C3_AttendanceBand(sd) + C3_EvaluationBand(sd))
    + 20 * Cardinality({i \in 1..Len(sd) : sd[i].payment_status = "atrasado"})
    + 15 * Cardinality({i \in 1..Len(sd) : sd[i].discipline_status = "reprovado"})
C3_Expected(sd) ==
    LET sn == C3_SumTimesN(sd)
        hn == 100 * Len(sd)
    IN  IF sn <= hn THEN R(sn, hn) ELSE R(1, 1)

\* C3: for every non-empty record set the returned probability is
\* min(S/100, 1.0), S being the sum of the grade band, the attendance band,
\* 20 x overdue rate, 15 x failure rate and the evaluation band.
C3_Formula ==
    (Scored /\ student_data # <<>>) =>
        /\ notna(churn_probability)
        /\ REq(churn_probability, C3_Expected(student_data))

\* A scored set in which every part of the sum is non-zero and not all bands
\* are at their maximum.
C3_Witness ==
    /\ pc = "scored"
    /\ Len(student_data) = 3
    /\ C3_GradeBand(student_data) = 10
    /\ C3_AttendanceBand(student_data) = 5
    /\ C3_EvaluationBand(student_data) = 5
    /\ \E i \in 1..3 : student_data[i].payment_status = "atrasado"
    /\ \E i \in 1..3 : student_data[i].discipline_status = "reprovado"

\* C4: the churn probability of every record set, the empty one and those
\* with missing values included, lies in [0.0, 1.0].
C4_Formula ==
    Scored =>
        /\ notna(churn_probability)
        /\ RLe(R(0, 1), churn_probability)
        /\ RLe(churn_probability, R(1, 1))

\* A scored set holding a record whose grade, attendance and evaluation
\* are all missing, with a positive probability.
C4_Witness ==
    /\ pc = "scored"
    /\ \E i \in 1..Len(student_data) :
          /\ student_data[i].final_grade.nan
          /\ student_data[i].attendance_pct.nan
          /\ student_data[i].course_evaluation.nan
    /\ RLt(R(0, 1), churn_probability)

\* C5: "high" exactly for probabilities >= 0.7, "medium" exactly for those
\* >= 0.4 and < 0.7, "low" exactly for those < 0.4.
C5_Formula ==
    pc = "done" =>
        /\ (risk_level = "high") <=> RLe(R(7, 10), churn_probability)
        /\ (risk_level = "medium") <=>
              (RLe(R(4, 10), churn_probability) /\ RLt(churn_probability, R(7, 10)))
        /\ (risk_level = "low") <=> RLt(churn_probability, R(4, 10))

\* The boundary value 0.7 itself, classified "high".
C5_Witness ==
    pc = "done" /\ REq(churn_probability, R(7, 10)) /\ risk_level = "high"

\* Record sets that differ from sd only in the final grade / only in the
\* payment status of record i.
C6_Grades == {R(3, 1), R(5, 1), R(65, 10), R(8, 1), NaN}
C6_WithGrade(sd, i, g) == [sd EXCEPT ![i].final_grade = g]
C6_Payments == {"pago", "pendente", "atrasado"}
C6_WithPayment(sd, i, p) == [sd EXCEPT ![i].payment_status = p]
C6_Overdue(sd) == Cardinality({i \in 1..Len(sd) : sd[i].payment_status = "atrasado"})

\* C6: with everything else fixed, a record set with a lower (or equal)
\* average grade never has the lower probability, and a record set with a
\* higher (or equal) overdue fraction never has the lower probability.  The
\* second record set is the first with one record's grade (payment) changed.
C6_Formula ==
    pc = "scored" =>
        /\ \A i \in 1..Len(student_data), g \in C6_Grades :
              LET other == C6_WithGrade(student_data, i, g)
                  m1 == Mean(Column(student_data, "final_grade"))
                  m2 == Mean(Column(other, "final_grade"))
              IN  (notna(m1) /\ notna(m2) /\ RLe(m2, m1)) =>
                      RLe(churn_probability, calculate_churn_probability(other))
        /\ \A i \in 1..Len(student_data), p \in C6_Payments :
              LET other == C6_WithPayment(student_data, i, p)
              IN  C6_Overdue(other) >= C6_Overdue(student_data) =>
                      RLe(churn_probability, calculate_churn_probability(other))

\* A scored set for which a lower average grade and a higher overdue fraction
\* both exist and both give a strictly higher probability.
C6_Witness ==
    /\ pc = "scored"
    /\ Len(student_data) = 3
    /\ \E i \in 1..3, g \in C6_Grades :
          LET other == C6_WithGrade(student_data, i, g)
              m1 == Mean(Column(student_data, "final_grade"))
              m2 == Mean(Column(other, "final_grade"))
          IN  /\ notna(m1) /\ notna(m2) /\ RLt(m2, m1)
              /\ RLt(churn_probability, calculate_churn_probability(other))
    /\ \E i \in 1..3, p \in C6_Payments :
          LET other == C6_WithPayment(student_data, i, p)
          IN  /\ C6_Overdue(other) > C6_Overdue(student_data)
              /\ RLt(churn_probability, calculate_churn_probability(other))

(***************************************************************************)
(* Claims about the ingestion pipeline (SpecPipeline)                      *)
(***************************************************************************)
C2_Files == FilesOf(Tables["standard"])

\* C2: the pipeline (try_read_csv_bytes, then process_university_data) on the
\* CSV with the ten standard column names, no admission column and the single
\* row A001,Engenharia,2024.1,Cálculo,8.0,90.0,pago,aprovado,8,ativo does not
\* fail, and yields exactly one canonical record, with student_id "A001",
\* final_grade 8.0, is_passing true, at_risk false and admission_type
\* "vestibular" -- under each separator and encoding the file is written in.
C2_Formula ==
    decoded \in C2_Files =>
        /\ pc \notin {"read_failed", "process_failed"}
        /\ pc = "processed" =>
              /\ Len(df_processed.rows) = 1
              /\ \A j \in 1..Len(df_processed.columns) :
                    ~IsFrame(df_processed, df_processed.columns[j])
              /\ Field(df_processed, "student_id", 1) = StrCell(Txt["A001"])
              /\ Field(df_processed, "final_grade", 1).k = "float"
              /\ Field(df_processed, "final_grade", 1).v = R(8, 1)
              /\ Field(df_processed, "is_passing", 1) = BoolCell(TRUE)
              /\ Field(df_processed, "at_risk", 1) = BoolCell(FALSE)
              /\ Field(df_processed, "admission_type", 1) = LitCell("vestibular")

\* The scenario's file, semicolon-separated and in Latin-1, has been read
\* (at the 8th attempt) and processed.
C2_Witness ==
    /\ pc = "processed"
    /\ decoded = Encode(CsvText(Tables["standard"], ";"), "latin1")
    /\ Len(df_processed.rows) = 1

\* The source columns of a raw table that resolve to a canonical name.
SourcesOf(df, target) == ColIdx(Step_rename(df), Lit[target])

\* C10 (as stated): when two source columns both resolve to final_grade,
\* process_university_data completes and every row's final_grade is the first
\* non-missing value of the two in source column order; the same for
\* attendance_pct and course_evaluation.
C10_Original ==
    \A k \in 1..Len(numeric_columns) :
        (pc \in {"processed", "process_failed"}
            /\ Cardinality(SourcesOf(df_raw, numeric_columns[k])) = 2) =>
            /\ pc = "processed"
            /\ \A i \in 1..Len(df_raw.rows) :
                  Field(df_processed, numeric_columns[k], i).v =
                      to_numeric(FirstNotNa(Step_rename(df_raw),
                                            Lit[numeric_columns[k]], i)).v

(***************************************************************************)
(* Claims about the schema normaliser (SpecPipeline)                       *)
(***************************************************************************)
\* The canonical fields, and the default of each categorical field.
C11_Fields ==
    <<"student_id", "course", "semester", "discipline", "final_grade",
      "attendance_pct", "payment_status", "discipline_status", "course_evaluation",
      "enrollment_status", "admission_type", "is_passing", "at_risk">>
C11_Default ==
    [f \in {"payment_status", "discipline_status", "enrollment_status", "admission_type"} |->
        CASE f = "payment_status" -> "pendente"
          [] f = "discipline_status" -> "em_andamento"
          [] f = "enrollment_status" -> "ativo"
          [] f = "admission_type" -> "vestibular"]
\* Every canonical field is a column of the output and every row has a cell
\* for every column.
C11_Complete ==
    /\ \A k \in 1..Len(C11_Fields) : HasCol(df_processed, Lit[C11_Fields[k]])
    /\ Len(df_processed.rows) = Len(df_raw.rows)
    /\ \A i \in 1..Len(df_processed.rows) :
          Len(df_processed.rows[i]) = Len(df_processed.columns)
\* The canonical fields read from the source that no source column resolves to.
C11_Missing == {f \in {C11_Fields[k] : k \in 1..11} : SourcesOf(df_raw, f) = {}}

\* C11 (as stated): the output of process_university_data has every canonical
\* field in every row, and a field missing from the source holds the
\* not-a-number value or the field's default.
C11_Original ==
    pc = "processed" =>
        /\ C11_Complete
        /\ \A f \in C11_Missing : \A i \in 1..Len(df_processed.rows) :
              \/ isna(Field(df_processed, f, i))
              \/ f \in DOMAIN C11_Default
                    /\ Field(df_processed, f, i) = LitCell(C11_Default[f])

\* C11 (amended): the output of process_university_data has every canonical
\* field in every row; a missing numeric field holds not-a-number, a missing
\* categorical field its default, and a missing student_id, course, semester
\* or discipline the text "nan" (the string conversion of not-a-number).
C11_Amended ==
    pc = "processed" =>
        /\ C11_Complete
        /\ \A f \in C11_Missing : \A i \in 1..Len(df_processed.rows) :
              Field(df_processed, f, i) =
                  (IF f \in DOMAIN C11_Default THEN LitCell(C11_Default[f])
                   ELSE IF \E k \in 1..Len(string_columns) : string_columns[k] = f
                   THEN StrCell(Lit["nan"])
                   ELSE NaNCell)

\* The table with the columns disciplina and nota_final only has been processed.
C11_Witness ==
    /\ pc = "processed"
    /\ Len(df_raw.columns) = 2
    /\ Len(df_processed.rows) = 1
    /\ Cardinality(C11_Missing) = 9
    /\ Field(df_processed, "student_id", 1) = StrCell(Lit["nan"])

\* The cells of the raw table, in a column that alone resolves to a numeric
\* field, that hold a text which is no number: <<field, row, column>>.
C12_BadCells ==
    {<<numeric_columns[k], i, j>> :
        k \in 1..Len(numeric_columns), i \in 1..Len(df_raw.rows),
        j \in 1..Len(df_raw.columns)} \cap
    {t \in (DOMAIN Lit) \X Nat \X Nat :
        /\ SourcesOf(df_raw, t[1]) = {t[3]}
        /\ df_raw.rows[t[2]][t[3]].k = "str"
        /\ ~IsNumText(df_raw.rows[t[2]][t[3]].s)}
\* No canonical name has two source columns (the case of claim C10).
C12_SingleSources ==
    \A k \in 1..11 : Cardinality(SourcesOf(df_raw, C11_Fields[k])) <= 1

\* C12: a cell of final_grade, attendance_pct or course_evaluation that is no
\* number does not make process_university_data raise; the cell is
\* not-a-number in the output, which has the rows of the input in their order.
C12_Formula ==
    (pc \in {"processed", "process_failed"} /\ C12_SingleSources /\ C12_BadCells # {}) =>
        /\ pc = "processed"
        /\ \A t \in C12_BadCells : isna(Field(df_processed, t[1], t[2]))
        /\ Len(df_processed.rows) = Len(df_raw.rows)
        /\ \A i \in 1..Len(df_raw.rows) : \A j \in SourcesOf(df_raw, "student_id") :
              Field(df_processed, "student_id", i) = StrCell(Str(df_raw.rows[i][j]))

\* The file whose second row has the grade "abc" has been processed: the
\* second grade is not-a-number and the first is 8.0.
C12_Witness ==
    /\ pc = "processed"
    /\ C12_BadCells = {<<"final_grade", 2, 5>>}
    /\ isna(Field(df_processed, "final_grade", 2))
    /\ Field(df_processed, "final_grade", 1).v = R(8, 1)
    /\ Field(df_processed, "student_id", 2) = StrCell(Txt["A002"])

\* C13: in every canonical record is_passing is true exactly when
\* final_grade >= 6.0 and attendance_pct >= 75.0, and at_risk exactly when
\* final_grade < 6.0 or attendance_pct < 75.0 or payment_status is atrasado;
\* a missing grade or attendance satisfies no comparison.
C13_Formula ==
    pc = "processed" =>
        \A i \in 1..Len(df_processed.rows) :
            LET g == Field(df_processed, "final_grade", i).v
                a == Field(df_processed, "attendance_pct", i).v
                overdue == Field(df_processed, "payment_status", i) = LitCell("atrasado")
            IN  /\ Field(df_processed, "is_passing", i).k = "bool"
                /\ Field(df_processed, "at_risk", i).k = "bool"
                /\ Field(df_processed, "is_passing", i).b <=>
                      (/\ notna(g) /\ RLe(R(6, 1), g)
                       /\ notna(a) /\ RLe(R(75, 1), a))
                /\ Field(df_processed, "at_risk", i).b <=>
                      (\/ notna(g) /\ RLt(g, R(6, 1))
                       \/ notna(a) /\ RLt(a, R(75, 1))
                       \/ overdue)

\* The file of six records has been processed: the record 6.0 / 75.0 is
\* passing and not at risk, the passing record with overdue payment is both,
\* and the record without grade and attendance, payment paid, is neither.
C13_Witness ==
    /\ pc = "processed"
    /\ Len(df_processed.rows) = 6
    /\ Field(df_processed, "final_grade", 1).v = R(6, 1)
    /\ Field(df_processed, "attendance_pct", 1).v = R(75, 1)
    /\ Field(df_processed, "is_passing", 1).b /\ ~Field(df_processed, "at_risk", 1).b
    /\ Field(df_processed, "payment_status", 2) = LitCell("atrasado")
    /\ Field(df_processed, "is_passing", 2).b /\ Field(df_processed, "at_risk", 2).b
    /\ isna(Field(df_processed, "final_grade", 3))
    /\ isna(Field(df_processed, "attendance_pct", 3))
    /\ ~Field(df_processed, "is_passing", 3).b /\ ~Field(df_processed, "at_risk", 3).b

\* C16: in every row of the output of process_university_data payment_status
\* is pago, pendente or atrasado, enrollment_status ativo, evadido or
\* trancado, discipline_status aprovado, reprovado or em_andamento and
\* admission_type transferencia_externa, transferencia_interna, bolsista or
\* vestibular, whatever the raw cells were; no mapper raises on a scalar (the
\* call raises only for a table with two columns of one canonical name).
C16_Formula ==
    /\ pc = "processed" =>
          \A i \in 1..Len(df_processed.rows) :
              /\ Field(df_processed, "payment_status", i) \in
                    {LitCell(e) : e \in {"pago", "pendente", "atrasado"}}
              /\ Field(df_processed, "enrollment_status", i) \in
                    {LitCell(e) : e \in {"ativo", "evadido", "trancado"}}
              /\ Field(df_processed, "discipline_status", i) \in
                    {LitCell(e) : e \in {"aprovado", "reprovado", "em_andamento"}}
              /\ Field(df_processed, "admission_type", i) \in
                    {LitCell(e) : e \in {"transferencia_externa", "transferencia_interna",
                                         "bolsista", "vestibular"}}
    /\ pc = "process_failed" => ~C12_SingleSources

\* The file with free-form categorical values has been processed.
C16_Witness ==
    /\ pc = "processed"
    /\ Len(df_processed.rows) = 2
    /\ \E j \in 1..Len(df_raw.columns) : df_raw.rows[1][j] = StrCell(Txt["Promocao"])
    /\ Field(df_processed, "admission_type", 1) = LitCell("bolsista")
    /\ Field(df_processed, "payment_status", 1) = LitCell("pendente")
    /\ Field(df_processed, "discipline_status", 1) = LitCell("reprovado")
    /\ Field(df_processed, "enrollment_status", 1) = LitCell("trancado")
    /\ Field(df_processed, "admission_type", 2) = LitCell("vestibular")
    /\ Field(df_processed, "payment_status", 2) = LitCell("pendente")
    /\ Field(df_processed, "discipline_status", 2) = LitCell("em_andamento")
    /\ Field(df_processed, "enrollment_status", 2) = LitCell("ativo")

(***************************************************************************)
(* Claims about the CSV decoder (SpecPipeline)                             *)
(***************************************************************************)
\* The table, separator and encoding the file was written from, when no text
\* of the table contains that separator.
C17_Written(t, sep, enc) ==
    /\ decoded = Encode(CsvText(Tables[t], sep), enc)
    /\ \A j \in 1..Len(Tables[t].header) : ~Contains(Tables[t].header[j], <<sep>>)
    /\ \A i \in 1..Len(Tables[t].rows) : \A j \in 1..Len(Tables[t].rows[i]) :
          ~Contains(Tables[t].rows[i][j], <<sep>>)

\* C17 (as stated): try_read_csv_bytes applied to a table written with a
\* supported delimiter and encoding returns a table with as many columns and
\* rows as the original, also when texts of the table contain one of the
\* other delimiters.
C17_Original ==
    \A t \in DOMAIN Tables, sep \in {",", ";", "TAB"}, enc \in {"utf-8", "utf-8-sig", "latin1"} :
        (pc # "decoded" /\ C17_Written(t, sep, enc)) =>
            /\ pc # "read_failed"
            /\ Len(df_raw.columns) = Len(Tables[t].header)
            /\ Len(df_raw.rows) = Len(Tables[t].rows)

\* The order of the claim: pass a reads with encoding C18_Order[a][1] and
\* delimiter C18_Order[a][2].
C18_Order ==
    <<<<"utf-8-sig", ",">>, <<"utf-8-sig", ";">>, <<"utf-8-sig", "TAB">>,
      <<"utf-8", ",">>, <<"utf-8", ";">>, <<"utf-8", "TAB">>,
      <<"latin1", ",">>, <<"latin1", ";">>, <<"latin1", "TAB">>,
      <<"cp1252", ",">>, <<"cp1252", ";">>, <<"cp1252", "TAB">>,
      <<"iso-8859-1", ",">>, <<"iso-8859-1", ";">>, <<"iso-8859-1", "TAB">>>>
C18_Parse(enc, sep) == ReadDecoded(Decode(decoded, enc), sep)
\* The passes that parse with more than one column.
C18_Good ==
    {a \in 1..15 : /\ C18_Parse(C18_Order[a][1], C18_Order[a][2]).ok
                   /\ Len(C18_Parse(C18_Order[a][1], C18_Order[a][2]).df.columns) > 1}

\* C18: try_read_csv_bytes returns the table of the first pass, in the order
\* utf-8-sig, utf-8, latin1, cp1252, iso-8859-1 and within each comma,
\* semicolon, tab, that parses with more than one column; when none of the 15
\* does it runs the default parse once and raises only if that fails, so a
\* table with one column comes from the default parse only.
C18_Formula ==
    pc # "decoded" =>
        \A good \in {C18_Good} :
            /\ good # {} =>
                  /\ pc # "read_failed"
                  /\ attempt \in good /\ \A a \in good : attempt <= a
                  /\ df_raw = C18_Parse(C18_Order[attempt][1], C18_Order[attempt][2]).df
            /\ good = {} =>
                  /\ attempt = 16
                  /\ pc = "read_failed" <=> ~C18_Parse("utf-8", ",").ok
                  /\ pc # "read_failed" => df_raw = C18_Parse("utf-8", ",").df
            /\ (pc # "read_failed" /\ Len(df_raw.columns) <= 1) => attempt = 16

\* The scenario's table written with tabs in Latin-1 has been read by the
\* ninth pass: the six passes in UTF-8 raise and latin1 with comma and with
\* semicolon give one column.
C18_Witness ==
    /\ pc = "read"
    /\ decoded = Encode(CsvText(Tables["standard"], "TAB"), "latin1")
    /\ attempt = 9
    /\ Len(df_raw.columns) = 10

\* C19 (as stated): every column name of the table try_read_csv_bytes returns
\* is in normalised form, normalize_str(name) = name.
C19_Original ==
    pc \in {"read", "processed", "process_failed"} =>
        \A j \in 1..Len(df_raw.columns) : normalize_str(df_raw.columns[j]) = df_raw.columns[j]

\* C23 (as stated): every source column whose normalized name contains both
\* "avaliacao" and "curso" is assigned course_evaluation, and every one whose
\* normalized name contains both "status" and "disciplina" is assigned
\* discipline_status.
C23_Original ==
    pc \in {"processed", "process_failed"} =>
        \A j \in 1..Len(df_raw.columns) :
            \A name \in {normalize_str(df_raw.columns[j])} :
                /\ Contains(name, Lit["avaliacao"]) /\ Contains(name, Lit["curso"])
                       => Renamed(name) = Lit["course_evaluation"]
                /\ Contains(name, Lit["status"]) /\ Contains(name, Lit["disciplina"])
                       => Renamed(name) = Lit["discipline_status"]

\* C24 (as stated): when two or more source columns resolve to one of the
\* eleven canonical fields, process_university_data does not raise and its
\* output holds that field as a single column, with the rows of the input.
C24_Original ==
    \A field \in {required[k] : k \in 1..Len(required)} \cup {"admission_type"} :
        (pc \in {"processed", "process_failed"}
            /\ Cardinality(SourcesOf(df_raw, field)) >= 2) =>
            /\ pc = "processed"
            /\ ~IsFrame(df_processed, Lit[field])
            /\ Len(df_processed.rows) = Len(df_raw.rows)

\* The canonical columns of a table, in the order they have in it.
C25_Order(df) ==
    SelectSeq(df.columns,
              LAMBDA c : \E k \in 1..Len(C11_Fields) : c = Lit[C11_Fields[k]])

\* C25 (as stated): the canonical columns of every output of
\* process_university_data are in one fixed order, the one the output for the
\* standard file has, whatever the order of the source columns and whichever
\* optional columns are absent.
C25_Original ==
    pc = "processed" =>
        C25_Order(df_processed) =
            C25_Order(process_university_data(
                          try_read_csv_bytes(Encode(CsvText(Tables["standard"], ","),
                                                    "utf-8")).df).df)

(***************************************************************************)
(* Claims about the students' risk assessments (SpecPipeline)              *)
(***************************************************************************)
\* The rows of the canonical table that carry the student_id of assessment a,
\* and the table made of these rows only.
C22_Rows(a) ==
    {i \in 1..Len(df_processed.rows) : Field(df_processed, "student_id", i) = a.student_id}
C22_Only(a) ==
    [columns |-> df_processed.columns,
     rows |-> Flatten([i \in 1..Len(df_processed.rows) |->
                          IF i \in C22_Rows(a) THEN <<df_processed.rows[i]>> ELSE <<>>])]

\* C22: calculate_student_churn_risk returns exactly one assessment per
\* distinct student_id of the canonical table; its course is that of the
\* student's first record, its avg_grade and failed_count are those of the
\* student's own records, the whole assessment is the one computed from the
\* table with all other students' records removed, and risk_level equals
\* get_churn_risk_level(churn_probability).
C22_Formula ==
    pc = "assessed" =>
        /\ Len(churn_data) =
             Cardinality({Field(df_processed, "student_id", i) :
                             i \in 1..Len(df_processed.rows)})
        /\ \A k, l \in 1..Len(churn_data) :
              k # l => churn_data[k].student_id # churn_data[l].student_id
        /\ \A k \in 1..Len(churn_data) :
              \A a \in {churn_data[k]} :
                 \A own \in {C22_Only(a)} :
                    /\ C22_Rows(a) # {}
                    /\ a.course = <<Field(own, "course", 1)>>
                    /\ a.avg_grade =
                         Mean([j \in 1..Len(own.rows) |-> Field(own, "final_grade", j).v])
                    /\ a.avg_attendance =
                         Mean([j \in 1..Len(own.rows) |-> Field(own, "attendance_pct", j).v])
                    /\ a.failed_count =
                         Cardinality({j \in 1..Len(own.rows) :
                             Field(own, "discipline_status", j) = LitCell("reprovado")})
                    /\ calculate_student_churn_risk(own).data = <<a>>
                    /\ a.risk_level = get_churn_risk_level(a.churn_probability)

\* Two students whose records alternate in the table, with different
\* averages and risk levels.
C22_Witness ==
    /\ pc = "assessed"
    /\ Len(churn_data) = 2
    /\ C22_Rows(churn_data[1]) = {1, 2, 3, 5}
    /\ C22_Rows(churn_data[2]) = {4, 6}
    /\ churn_data[1].avg_grade # churn_data[2].avg_grade
    /\ churn_data[1].risk_level # churn_data[2].risk_level
    /\ churn_data[2].failed_count = 2

(***************************************************************************)
(* Claims about the text normaliser and the categorical mappers (SpecText) *)
(***************************************************************************)
\* C20: normalize_str is idempotent: normalising the result of normalize_str
\* again gives the same string, for strings with accents, upper case,
\* byte-order marks, tabs, hyphens, underscores and spaces and for the
\* missing value.
C20_Formula ==
    pc \in {"normalized_twice", "mapped"} => normalized_twice = normalized_once

\* A string with upper case, a tab and an accent has been normalised twice,
\* to a string different from itself.
C20_Witness ==
    /\ pc = "normalized_twice"
    /\ input_value = StrCell(<<"A", "TAB", "a_acute">>)
    /\ normalized_once = <<"a", "_", "a">>
    /\ normalized_twice = <<"a", "_", "a">>

\* The keywords of each mapper and its default.
C14_Keywords ==
    [admission_type |-> {"externa", "external", "interna", "internal", "bolsa",
                         "scholarship", "promocao", "vestibular", "entrance"},
     enrollment_status |-> {"evadido", "dropped", "desistente", "trancado", "suspended",
                            "trancamento", "ativo", "active", "matriculado"},
     discipline_status |-> {"aprovado", "approved", "passed", "reprovado", "failed",
                            "reprovacao", "andamento", "progress", "cursando"},
     payment_status |-> {"pago", "paid", "quitado", "atrasado", "overdue", "late",
                         "vencido", "pendente", "pending"}]

\* C14: each categorical mapper returns its field's default for a missing
\* input and for every input that matches none of the field's keywords:
\* "pendente", "ativo", "em_andamento" and "vestibular" (also for "").
C14_Formula ==
    pc = "mapped" =>
        /\ \A f \in DOMAIN C14_Keywords :
              (isna(input_value)
                  \/ \A w \in C14_Keywords[f] : ~Contains(normalized_once, Lit[w]))
              => mapped[f] = C11_Default[f]
        /\ input_value = StrCell(<<>>) => mapped.admission_type = "vestibular"

\* The four mappers have been applied to "xyz_unknown".
C14_Witness ==
    /\ pc = "mapped"
    /\ normalized_once = <<"x", "y", "z", "_", "u", "n", "k", "n", "o", "w", "n">>
    /\ mapped = [admission_type |-> "vestibular", enrollment_status |-> "ativo",
                 discipline_status |-> "em_andamento", payment_status |-> "pendente"]

\* C15 (as stated): map_admission_type returns transferencia_externa for every
\* value whose normalized form contains "extern", and map_payment_status
\* returns atrasado for every value whose normalized form contains "atras",
\* "overdue" or "venc" and no keyword of the earlier rule.
C15_Original ==
    pc = "mapped" =>
        /\ Contains(normalized_once, <<"e", "x", "t", "e", "r", "n">>)
              => mapped.admission_type = "transferencia_externa"
        /\ (/\ \/ Contains(normalized_once, <<"a", "t", "r", "a", "s">>)
               \/ Contains(normalized_once, Lit["overdue"])
               \/ Contains(normalized_once, <<"v", "e", "n", "c">>)
            /\ \A w \in {"pago", "paid", "quitado"} : ~Contains(normalized_once, Lit[w]))
              => mapped.payment_status = "atrasado"

\* C15 (amended): map_admission_type returns transferencia_externa for every
\* value whose normalized form contains "externa" or "external", and
\* map_payment_status returns atrasado for every value whose normalized form
\* contains "atrasado", "overdue" or "vencido" and no keyword of the earlier
\* rule ("pago", "paid", "quitado").
C15_Amended ==
    pc = "mapped" =>
        /\ (Contains(normalized_once, Lit["externa"])
               \/ Contains(normalized_once, Lit["external"]))
              => mapped.admission_type = "transferencia_externa"
        /\ (/\ \/ Contains(normalized_once, Lit["atrasado"])
               \/ Contains(normalized_once, Lit["overdue"])
               \/ Contains(normalized_once, Lit["vencido"])
            /\ \A w \in {"pago", "paid", "quitado"} : ~Contains(normalized_once, Lit[w]))
              => mapped.payment_status = "atrasado"

\* The mappers have been applied to "X-vencido ".
C15_Witness ==
    /\ pc = "mapped"
    /\ normalized_once = <<"x", "_", "v", "e", "n", "c", "i", "d", "o">>
    /\ mapped.payment_status = "atrasado"
    /\ mapped.admission_type = "vestibular"

\* C21 (as stated): normalize_str collapses every run of tabs, hyphens,
\* underscores and whitespace into one separator: its output never has two
\* adjacent underscores.
C21_Original ==
    pc \in {"normalized", "normalized_twice", "mapped"} =>
        \A i \in 1..(Len(normalized_once) - 1) :
            ~(normalized_once[i] = "_" /\ normalized_once[i + 1] = "_")

(***************************************************************************)
(* Claims about the upload handler and persistence (SpecUpload)            *)
(***************************************************************************)
Distinct(keys) == \A i, j \in 1..Len(keys) : i # j => keys[i] # keys[j]

\* C7: after any sequence of ingestions, storage holds at most one Student per
\* student_id and at most one Discipline per name: a key that is already
\* stored is found and reused by a later ingestion, which never tries to
\* insert it a second time (no ingestion ends in the IntegrityError of the
\* unique constraint), and every Grade refers to a stored Student and a
\* stored Discipline.
C7_Formula ==
    /\ Distinct(StudentKeys(db.students))
    /\ Distinct(db.disciplines)
    /\ save_raised # "IntegrityError"
    /\ \A g \in 1..Len(db.grades) :
          /\ db.grades[g].student_id \in 1..Len(db.students)
          /\ db.grades[g].discipline_id \in 1..Len(db.disciplines)

\* The scenario's file was ingested twice: one Student A001 and one Discipline,
\* two Grades, both of the Student and the Discipline stored first.
C7_Witness ==
    /\ n_uploads = 2
    /\ save_raised = ""
    /\ StudentKeys(db.students) = <<Txt["A001"]>>
    /\ db.disciplines = <<Txt["Calculo"]>>
    /\ Len(db.grades) = 2
    /\ \A g \in 1..2 : db.grades[g].student_id = 1 /\ db.grades[g].discipline_id = 1

\* The canonical table of the file last uploaded, as store data.
C8_Table == to_json(UploadRun[contents].processed.df)

\* C8: when save_data_to_database raises during an upload, handle_upload still
\* returns the success status with the complete canonical table as store
\* data, the same table as when persistence succeeds: whatever persistence
\* does, a call that reaches it returns success and the table of the file.
C8_Formula ==
    save_raised # "not_called" =>
        /\ upload_status = "success"
        /\ store_data # NoData
        /\ store_data = C8_Table

\* The commit of an upload of two records failed, and the handler returned
\* success with both records.
C8_Witness ==
    /\ save_raised = "OperationalError"
    /\ db = EmptyDb
    /\ upload_status = "success"
    /\ Len(store_data.data) = 2

\* The raw table of the file last uploaded.
C9_Raw == UploadRun[contents].read

\* C9 (as stated): when the source table has no column resolving to the
\* student identifier or no column resolving to the course, the upload is
\* rejected for its missing columns: no canonical table is returned and
\* save_data_to_database is not called.
C9_Original ==
    (/\ n_uploads > 0
     /\ contents.given
     /\ C9_Raw.ok
     /\ \/ SourcesOf(C9_Raw.df, "student_id") = {}
        \/ SourcesOf(C9_Raw.df, "course") = {}) =>
        /\ upload_status = "invalid_format"
        /\ store_data = NoData
        /\ save_raised = "not_called"

\* C26: handle_upload stops at the first stage that fails, in the order
\* decode, required-column check, normalization: a file that cannot be read
\* gives the read-error message, a readable file with more than five required
\* columns missing the invalid-format message, and a file that passes the
\* check and that process_university_data raises on the processing-error
\* message; the three messages differ, each comes with empty store data, and
\* after any of them save_data_to_database was not called and the stored
\* rows are as they were.
C26_Formula ==
    [][n_uploads' = n_uploads + 1 =>
        \A read \in {UploadRun[contents'].read} :
            /\ (contents'.given /\ ~read.ok) => upload_status' = "read_error"
            /\ (contents'.given /\ read.ok
                    /\ Len(UploadRun[contents'].missing_cols) > 5) =>
                   upload_status' = "invalid_format"
            /\ (contents'.given /\ read.ok
                    /\ Len(UploadRun[contents'].missing_cols) <= 5
                    /\ ~UploadRun[contents'].processed.ok) =>
                   upload_status' = "process_error"
            /\ upload_status' \in {"read_error", "invalid_format", "process_error"} =>
                   /\ store_data' = NoData
                   /\ save_raised' = "not_called"
                   /\ db' = db]_vars

\* After an upload that stored a Grade, a file with two columns of one numeric
\* target was rejected in normalization, and the stored rows are as before.
C26_Witness ==
    /\ n_uploads = 2
    /\ upload_status = "process_error"
    /\ store_data = NoData
    /\ save_raised = "not_called"
    /\ Len(db.grades) = 1

\* The records of a canonical table whose student_id and discipline are both
\* present, in table order.
C27_Records(table) ==
    Flatten([i \in 1..Len(table.rows) |->
                IF /\ Str(Field(table, "student_id", i)) \notin {<<>>, Lit["nan"]}
                   /\ Str(Field(table, "discipline", i)) \notin {<<>>, Lit["nan"]}
                THEN <<i>> ELSE <<>>])

C28_Original ==
    [][(n_uploads' = n_uploads + 1 /\ save_raised' = "") =>
          \A table \in {UploadRun[contents'].processed.df} :
             /\ \A k \in (Len(db.students) + 1)..Len(db'.students) :
                   \E i \in 1..Len(table.rows) :
                      Str(Field(table, "student_id", i)) = db'.students[k].student_id
             /\ \A k \in (Len(db.disciplines) + 1)..Len(db'.disciplines) :
                   \E i \in 1..Len(table.rows) :
                      Str(Field(table, "discipline", i)) = db'.disciplines[k]
             /\ Len(db'.grades) - Len(db.grades) <= Len(table.rows)]_vars

(***************************************************************************)
(* Claims about concurrent ingestions (SpecRace)                           *)
(***************************************************************************)
\* C29: under every interleaving of two concurrent ingestions storage holds
\* at most one Student per student_id and one Discipline per name; an
\* ingestion whose INSERT is rejected changes nothing in storage, then or
\* later, and every ingestion that has ended, rejected or not, has returned
\* the success message with its canonical table.
C29_Formula ==
    /\ [](/\ Distinct(StudentKeys(db.students))
          /\ Distinct(db.disciplines)
          /\ \A w \in DOMAIN workers :
                workers[w].raised # "" => workers[w].status = "success")
    /\ [][\A w \in DOMAIN workers :
             /\ (workers'[w] # workers[w] /\ workers'[w].raised # "") => db' = db
             /\ workers[w].status # "" => workers'[w] = workers[w]]_vars

\* Both ingestions carry student A001, whose Discipline was stored before;
\* both looked A001 up and found it absent; the second worker's INSERT and
\* commit went through, the first worker's INSERT was rejected by the unique
\* constraint, and storage holds one Student and one Grade.
C29_Witness ==
    /\ pc = "racing"
    /\ workers[1].table = workers[2].table
    /\ workers[1].phase = "students"
    /\ workers[1].raised = "IntegrityError"
    /\ workers[1].status = "success"
    /\ workers[2].phase = "grades"
    /\ workers[2].raised = ""
    /\ workers[2].status = "success"
    /\ StudentKeys(db.students) = <<Txt["A001"]>>
    /\ Len(db.grades) = 1

====
